---- MODULE Spec2Model ----
(***************************************************************************)
(* Verification model of the Casio fx-991ES PLUS calculator core:          *)
(* tokenizer, shunting-yard parser, RPN evaluator (parser.js/evaluator.js),*)
(* and the solver / integrator closures that drive the evaluator.          *)
(*                                                                         *)
(* Characters are one-character strings.  Non-ASCII characters of the      *)
(* source are written by name:                                             *)
(*   "TIMES" U+00D7   "DIVIDE" U+00F7   "MINUS" U+2212   "PI" U+03C0       *)
(*   "SQRT_SIGN" U+221A  "CBRT_SIGN" U+221B  "FOURTHRT_SIGN" U+221C        *)
(*   "SUP_MINUS" U+207B  "SUP_ONE" U+00B9  "SUP_Y" U+02B8                  *)
(* Numbers are exact rationals n/d (d > 0, lowest terms) extended with     *)
(* NaN and +/-Infinity; a finite value outside the exactly tracked range   *)
(* (magnitude above MaxMag, or an irrational function value) is Unrep.     *)
(***************************************************************************)
EXTENDS Integers, Sequences, FiniteSets, TLC

\* ------------------------------------------------------------------ bounds
\* largest operand literal of the generated expressions
MaxNum == 2
\* the longest token sequence handed to parseToRPN directly
MaxTokens == 4
\* the largest of the small iteration limits passed as maxIterations
MaxIterations == 3
\* the largest maxDepth passed to integrate
MaxDepth == 2
\* largest numerator / denominator tracked exactly
MaxMag == 1000000000
\* the most keys pressed in a row
MaxKeys == 5

VARIABLES
    pc,          \* where the current call stands
    input,       \* the case the caller chose: the shape of its expression and its parts
    exprIn,      \* the expression string passed in, as characters
    toks,        \* the tokens tokenize returned
    rpnOut,      \* the tokens parseToRPN returned
    outcome,     \* what the call returned or threw
    angleUnit,   \* calculatorState.angleUnit
    memory,      \* calculatorState.memory
    originalMemory, \* the copy of state.memory the running call of f has taken
    solver,      \* the local variables of the running solve / integrate call
    samples,     \* the values f was called with since the call began, in order
    earlier,     \* how the call made before this one ended, if one was made
    state        \* calculatorState (but memory and angleUnit), cursorManager.position

vars == <<pc, input, exprIn, toks, rpnOut, outcome, angleUnit, memory,
          originalMemory, solver, samples, earlier, state>>

\* ------------------------------------------------------------------ numbers
Num(n, d) == [k |-> "num", n |-> n, d |-> d]
Int2V(i)  == Num(i, 1)
NaN       == [k |-> "nan", n |-> 0, d |-> 1]
PInf      == [k |-> "inf", n |-> 1, d |-> 1]
NInf      == [k |-> "inf", n |-> -1, d |-> 1]
\* JavaScript null / undefined (an empty mem register, a missing key)
Null      == [k |-> "null", n |-> 0, d |-> 1]
\* a finite number the model does not track exactly; s is its sign, 0 when
\* the sign is not known either
UnrepS(s) == [k |-> "unrep", n |-> s, d |-> 1]
Zero      == Int2V(0)
One       == Int2V(1)

IsNum(v)   == v.k = "num"
IsNaN(v)   == v.k = "nan"
IsInf(v)   == v.k = "inf"
IsUnrep(v) == v.k = "unrep"
\* isFinite(v)
isFinite(v) == v.k \in {"num", "unrep"}

AbsI(i) == IF i < 0 THEN -i ELSE i
SgnI(i) == IF i < 0 THEN -1 ELSE IF i = 0 THEN 0 ELSE 1

RECURSIVE GCD(_, _)
GCD(x, y) == IF y = 0 THEN x ELSE GCD(y, x % y)

\* x * y fits the tracked range
MulFits(x, y) == x = 0 \/ y = 0 \/ AbsI(x) <= MaxMag \div AbsI(y)

\* the rational n/d (d # 0) in lowest terms with a positive denominator
Norm(n, d) ==
    LET g == GCD(AbsI(n), AbsI(d))
        s == IF d < 0 THEN -1 ELSE 1
    IN  Num(s * (n \div g), AbsI(d) \div g)

\* sign of a value: -1, 0, 1; 2 when it has none (NaN) or it is not known
Sign(v) ==
    IF IsNum(v) \/ IsInf(v) THEN SgnI(v.n)
    ELSE IF IsUnrep(v) /\ v.n # 0 THEN v.n
    ELSE 2
SignKnown(v) == Sign(v) # 2

Neg(v) == IF IsNaN(v) THEN v ELSE [v EXCEPT !.n = -v.n]

\* a + b (IEEE: Inf + -Inf = NaN)
Add(a, b) ==
    IF IsNaN(a) \/ IsNaN(b) THEN NaN
    ELSE IF IsInf(a) /\ IsInf(b) THEN (IF a.n = b.n THEN a ELSE NaN)
    ELSE IF IsInf(a) THEN a
    ELSE IF IsInf(b) THEN b
    ELSE LET over == UnrepS(IF Sign(a) = 0 THEN b.n
                            ELSE IF Sign(b) = 0 \/ Sign(a) = Sign(b) THEN a.n
                            ELSE 0)
         IN  IF IsUnrep(a) \/ IsUnrep(b)
             THEN (IF Sign(a) = 0 THEN b ELSE IF Sign(b) = 0 THEN a ELSE over)
             ELSE LET g  == GCD(a.d, b.d)
                      bd == b.d \div g
                      ad == a.d \div g
                  IN  IF MulFits(a.n, bd) /\ MulFits(b.n, ad) /\ MulFits(a.d, bd)
                      THEN LET s == a.n * bd + b.n * ad
                           IN  IF AbsI(s) <= MaxMag THEN Norm(s, a.d * bd) ELSE over
                      ELSE over

Sub(a, b) == Add(a, Neg(b))

\* a * b (IEEE: 0 * Inf = NaN)
Mul(a, b) ==
    IF IsNaN(a) \/ IsNaN(b) THEN NaN
    ELSE IF IsInf(a) \/ IsInf(b)
         THEN (IF Sign(a) = 0 \/ Sign(b) = 0 THEN NaN
               ELSE IF ~SignKnown(a) \/ ~SignKnown(b) THEN UnrepS(0)
               ELSE IF Sign(a) = Sign(b) THEN PInf ELSE NInf)
    ELSE IF Sign(a) = 0 \/ Sign(b) = 0 THEN Zero
    ELSE LET over == UnrepS(IF SignKnown(a) /\ SignKnown(b)
                            THEN Sign(a) * Sign(b) ELSE 0)
         IN  IF IsUnrep(a) \/ IsUnrep(b) THEN over
             ELSE LET g1 == GCD(AbsI(a.n), b.d)
                      g2 == GCD(AbsI(b.n), a.d)
                      n1 == a.n \div g1
                      d2 == b.d \div g1
                      n2 == b.n \div g2
                      d1 == a.d \div g2
                  IN  IF MulFits(n1, n2) /\ MulFits(d1, d2)
                      THEN Norm(n1 * n2, d1 * d2)
                      ELSE over

\* 1 / b for b # 0
Recip(b) ==
    IF IsNaN(b) \/ IsUnrep(b) THEN b
    ELSE IF IsInf(b) THEN Zero
    ELSE Norm(b.d, b.n)

\* a / b (IEEE: x / 0 = +/-Inf, 0 / 0 = NaN, Inf / Inf = NaN)
Div(a, b) ==
    IF IsNaN(a) \/ IsNaN(b) THEN NaN
    ELSE IF Sign(b) = 0
         THEN (IF Sign(a) = 0 THEN NaN
               ELSE IF Sign(a) = 2 THEN UnrepS(0)
               ELSE IF Sign(a) > 0 THEN PInf ELSE NInf)
    ELSE IF IsInf(a) /\ IsInf(b) THEN NaN
    ELSE Mul(a, Recip(b))

\* a < b, a === b, a <= b as JavaScript compares numbers (false with NaN)
Lt(a, b) == Sign(Sub(a, b)) = -1
StrictEq(a, b) == (IsNum(a) \/ IsInf(a)) /\ a = b
Le(a, b) == Lt(a, b) \/ StrictEq(a, b)
\* the comparison of a with b is decided by what the model tracks
Comparable(a, b) == StrictEq(a, b) \/ SignKnown(Sub(a, b)) \/ IsNaN(a) \/ IsNaN(b)

\* Math.abs
Abs(v) == IF Sign(v) = -1 THEN Neg(v) ELSE v

\* Number.isInteger
isInteger(v) == IsNum(v) /\ v.d = 1

\* truncation of an exact rational toward zero
Trunc(v) == Int2V(SgnI(v.n) * (AbsI(v.n) \div v.d))

\* a % b, the JavaScript remainder (sign of the dividend)
Mod(a, b) ==
    IF IsNaN(a) \/ IsNaN(b) \/ IsInf(a) \/ Sign(b) = 0 THEN NaN
    ELSE IF IsInf(b) THEN a
    ELSE IF IsUnrep(a) \/ IsUnrep(b) THEN UnrepS(0)
    ELSE LET q == Div(a, b)
         IN  IF IsUnrep(q) THEN UnrepS(0) ELSE Sub(a, Mul(b, Trunc(q)))

\* m^n for an exact m > 0 and a natural n, by repeated multiplication
RECURSIVE PowAcc(_, _, _)
PowAcc(acc, m, n) ==
    IF n = 0 \/ IsUnrep(acc) \/ m = One THEN acc
    ELSE PowAcc(Mul(acc, m), m, n - 1)

\* Math.pow(a, b)
Pow(a, b) ==
    IF IsNaN(b) THEN NaN
    ELSE IF Sign(b) = 0 THEN One
    ELSE IF IsNaN(a) THEN NaN
    ELSE IF IsUnrep(a) \/ IsUnrep(b) THEN UnrepS(IF Sign(a) = 1 THEN 1 ELSE 0)
    ELSE IF IsInf(b)
         THEN (IF Abs(a) = One THEN NaN
               ELSE IF Lt(One, Abs(a)) = (b.n > 0) THEN PInf ELSE Zero)
    ELSE LET odd == b.d = 1 /\ b.n % 2 = 1
             neg == Sign(a) = -1 /\ odd
         IN  IF IsInf(a) \/ Sign(a) = 0
             THEN (IF (Sign(b) = 1) = IsInf(a)
                   THEN (IF neg THEN NInf ELSE PInf)
                   ELSE Zero)
             ELSE IF b.d # 1
             THEN (IF Sign(a) = -1 THEN NaN
                   ELSE IF a = One THEN One ELSE UnrepS(1))
             ELSE LET mag == PowAcc(One, Abs(a), AbsI(b.n))
                      val == IF b.n < 0 THEN Recip(mag) ELSE mag
                  IN  IF neg THEN Neg(val) ELSE val

\* the exact square root of a natural x, or -1 when x is no perfect square:
\* bisection of lo..hi
RECURSIVE IRootFrom(_, _, _)
IRootFrom(x, lo, hi) ==
    IF lo > hi THEN -1
    ELSE LET mid == (lo + hi) \div 2
         IN  IF mid > x \div mid THEN IRootFrom(x, lo, mid - 1)
             ELSE IF mid * mid = x THEN mid
             ELSE IRootFrom(x, mid + 1, hi)
ISqrt(x) == IF x = 0 THEN 0 ELSE IRootFrom(x, 1, x)

\* Math.sqrt(v) for v >= 0 or NaN
Sqrt(v) ==
    IF ~IsNum(v) THEN v
    ELSE LET rn == ISqrt(v.n)
             rd == ISqrt(v.d)
         IN  IF rn >= 0 /\ rd >= 0 THEN Num(rn, rd) ELSE UnrepS(1)

\* the exponent e with 10^e = v for an exact v >= 1, or -1
RECURSIVE ILog10(_, _)
ILog10(x, e) ==
    IF x = 1 THEN e
    ELSE IF x % 10 # 0 THEN -1
    ELSE ILog10(x \div 10, e + 1)

\* the sign of log(v) and ln(v) for v > 0: the sign of v - 1
LogSign(v) == IF SignKnown(Sub(v, One)) THEN Sign(Sub(v, One)) ELSE 0

\* Math.log10(v) for v > 0 or NaN
Log10(v) ==
    IF IsNaN(v) \/ IsInf(v) THEN v
    ELSE IF IsNum(v) /\ v.d = 1 /\ ILog10(v.n, 0) >= 0 THEN Int2V(ILog10(v.n, 0))
    ELSE IF IsNum(v) /\ v.n = 1 /\ ILog10(v.d, 0) >= 0 THEN Int2V(-ILog10(v.d, 0))
    ELSE UnrepS(LogSign(v))

\* Math.log(v) for v > 0 or NaN
Ln(v) ==
    IF IsNaN(v) \/ IsInf(v) THEN v
    ELSE IF v = One THEN Zero
    ELSE UnrepS(LogSign(v))

\* an odd function with f(0) = 0 that keeps the sign (sinh, tanh, atan, cbrt
\* away from the values the model tracks): exact at 0, untracked elsewhere
OddFn(v) ==
    IF IsNaN(v) \/ Sign(v) = 0 THEN v
    ELSE UnrepS(IF SignKnown(v) THEN Sign(v) ELSE 0)

\* ------------------------------------------------------------- outcomes
\* what a call ends with: a returned value, or a thrown Error(msg + arg)
Ret(v)        == [ok |-> TRUE,  val |-> v,    msg |-> "",  arg |-> ""]
Throw(m, x)   == [ok |-> FALSE, val |-> Null, msg |-> m,   arg |-> x]
\* a decision the code takes on the sign or the integrality of a value the
\* model does not track: the run stops there.  No evaluation of Spec and
\* SpecParse reaches it (see NoModelLimit); of SpecSolve the calls whose
\* iterates leave the tracked range are followed up to that point
ModelLimit    == Throw("MODEL_LIMIT", "")

\* ------------------------------------------------------------- evaluator.js
\* toRadians / gradiansToRadians / applyAngleUnit: a multiple of pi, which is
\* exact only at 0
applyAngleUnit(value, unit) ==
    IF unit \in {"DEG", "GRAD"} THEN OddFn(value) ELSE value

\* toDegrees / applyInverseAngleUnit
applyInverseAngleUnit(value, unit) ==
    IF unit \in {"DEG", "GRAD"} THEN OddFn(value) ELSE value

\* Math.sin, Math.tan (0 at 0) and Math.cos (1 at 0)
Sin(v) == IF IsInf(v) THEN NaN ELSE IF IsNaN(v) \/ Sign(v) = 0 THEN v ELSE UnrepS(0)
Tan(v) == Sin(v)
Cos(v) == IF IsInf(v) THEN NaN ELSE IF IsNaN(v) THEN v
          ELSE IF Sign(v) = 0 THEN One ELSE UnrepS(0)
\* Math.asin, Math.acos: NaN outside [-1, 1]
Asin(v) == IF IsNaN(v) \/ IsInf(v) \/ Lt(One, Abs(v)) THEN NaN ELSE OddFn(v)
Acos(v) == IF IsNaN(v) \/ IsInf(v) \/ Lt(One, Abs(v)) THEN NaN
           ELSE IF v = One THEN Zero ELSE UnrepS(1)
\* Math.cosh
Cosh(v) == IF IsNaN(v) THEN v ELSE IF IsInf(v) THEN PInf
           ELSE IF Sign(v) = 0 THEN One ELSE UnrepS(1)
\* Math.tanh
Tanh(v) == IF IsInf(v) THEN Int2V(v.n) ELSE OddFn(v)
\* Math.cbrt and Math.pow(x, 1/4)
Cbrt(v) == IF IsInf(v) \/ v \in {One, Neg(One)} THEN v ELSE OddFn(v)

\* MathUtils.factorial(n) for an integer n >= 0 (utils.js)
RECURSIVE FactLoop(_, _, _)
FactLoop(result, i, n) ==
    IF i > n \/ IsUnrep(result) THEN result
    ELSE FactLoop(Mul(result, Int2V(i)), i + 1, n)
factorial(v) ==
    IF ~isInteger(v) \/ Sign(v) = -1
    THEN Throw("Factorial requires non-negative integer", "")
    ELSE IF v.n = 0 \/ v.n = 1 THEN Ret(One)
    ELSE IF v.n > 170 THEN Ret(PInf)
    ELSE Ret(FactLoop(One, 2, v.n))

\* MathUtils.permutation(n, r): the product n * (n-1) * ... * (n-r+1)
RECURSIVE PermLoop(_, _, _)
PermLoop(result, i, stop) ==
    IF i <= stop \/ IsUnrep(result) THEN result
    ELSE PermLoop(Mul(result, Int2V(i)), i - 1, stop)
permutation(n, r) ==
    IF ~isInteger(n) \/ ~isInteger(r) THEN Throw("Permutation requires integers", "")
    ELSE IF n.n < 0 \/ r.n < 0 THEN Throw("Permutation requires non-negative values", "")
    ELSE IF r.n > n.n THEN Ret(Zero)
    ELSE IF r.n = 0 THEN Ret(One)
    ELSE Ret(PermLoop(One, n.n, n.n - r.n))

\* MathUtils.combination(n, r): result *= (n - i); result /= (i + 1), i < r
RECURSIVE CombLoop(_, _, _, _)
CombLoop(result, i, r, n) ==
    IF i >= r \/ IsUnrep(result) THEN result
    ELSE CombLoop(Div(Mul(result, Int2V(n - i)), Int2V(i + 1)), i + 1, r, n)
combination(n, r) ==
    IF ~isInteger(n) \/ ~isInteger(r) THEN Throw("Combination requires integers", "")
    ELSE IF n.n < 0 \/ r.n < 0 THEN Throw("Combination requires non-negative values", "")
    ELSE IF r.n > n.n THEN Ret(Zero)
    ELSE IF r.n = 0 \/ r.n = n.n THEN Ret(One)
    ELSE LET rr == IF r.n > n.n - r.n THEN n.n - r.n ELSE r.n
         IN  Ret(CombLoop(One, 0, rr, n.n))

\* The case labels of evaluateOperation.  In evaluator.js the labels written
\* for the non-ASCII symbols are stored double-encoded (the bytes of U+2212
\* read as three characters, and so on): each is a string of several
\* characters, written here "mojibake:<symbol>", and equals no symbol that
\* parser.js uses.
SubLabels   == {"mojibake:MINUS", "-"}
MulLabels   == {"mojibake:TIMES", "*"}
DivLabels   == {"mojibake:DIVIDE", "/"}
PowLabels   == {"^", "mojibake:xSUP_Y"}
AsinLabels  == {"mojibake:sinSUP_MINUSSUP_ONE", "asin"}
AcosLabels  == {"mojibake:cosSUP_MINUSSUP_ONE", "acos"}
AtanLabels  == {"mojibake:tanSUP_MINUSSUP_ONE", "atan"}
SqrtLabels  == {"mojibake:SQRT_SIGN", "sqrt"}

\* evaluateOperation branches on a property of args[i] that the model does
\* not track: the sign of an untracked value, or whether it is an integer
Undecided(operator, args) ==
    \E i \in 1..Len(args) :
        /\ IsUnrep(args[i])
        /\ \/ operator \in {"!", "nPr", "nCr", "%"}
           \/ operator \in DivLabels /\ i = 2 /\ ~SignKnown(args[i])
           \/ operator \in SqrtLabels \cup {"log", "ln"} /\ ~SignKnown(args[i])

\* evaluateOperation(operator, args, angleUnit)
evaluateOperation(operator, args, unit) ==
    IF Undecided(operator, args) THEN ModelLimit
    ELSE CASE operator = "+" -> Ret(Add(args[1], args[2]))
      [] operator \in SubLabels -> Ret(Sub(args[1], args[2]))
      [] operator \in MulLabels -> Ret(Mul(args[1], args[2]))
      [] operator \in DivLabels ->
            IF StrictEq(args[2], Zero) THEN Throw("Division by zero", "")
            ELSE Ret(Div(args[1], args[2]))
      [] operator \in PowLabels -> Ret(Pow(args[1], args[2]))
      [] operator = "%" -> Ret(Mod(args[1], args[2]))
      [] operator = "sin" -> Ret(Sin(applyAngleUnit(args[1], unit)))
      [] operator = "cos" -> Ret(Cos(applyAngleUnit(args[1], unit)))
      [] operator = "tan" -> Ret(Tan(applyAngleUnit(args[1], unit)))
      [] operator \in AsinLabels -> Ret(applyInverseAngleUnit(Asin(args[1]), unit))
      [] operator \in AcosLabels -> Ret(applyInverseAngleUnit(Acos(args[1]), unit))
      [] operator \in AtanLabels -> Ret(applyInverseAngleUnit(OddFn(args[1]), unit))
      [] operator = "sinh" -> Ret(IF IsInf(args[1]) THEN args[1] ELSE OddFn(args[1]))
      [] operator = "cosh" -> Ret(Cosh(args[1]))
      [] operator = "tanh" -> Ret(Tanh(args[1]))
      [] operator = "log" ->
            IF Le(args[1], Zero) THEN Throw("Invalid domain for log", "")
            ELSE Ret(Log10(args[1]))
      [] operator = "ln" ->
            IF Le(args[1], Zero) THEN Throw("Invalid domain for ln", "")
            ELSE Ret(Ln(args[1]))
      [] operator \in SqrtLabels ->
            IF Lt(args[1], Zero) THEN Throw("Invalid domain for sqrt", "")
            ELSE Ret(Sqrt(args[1]))
      [] operator = "mojibake:CBRT_SIGN" -> Ret(Cbrt(args[1]))
      [] operator = "mojibake:FOURTHRT_SIGN" ->
            Ret(Pow(args[1], Num(1, 4)))
      [] operator \in {"abs", "Abs"} -> Ret(Abs(args[1]))
      [] operator = "!" ->
            IF ~isInteger(args[1]) \/ Lt(args[1], Zero)
            THEN Throw("Factorial requires non-negative integer", "")
            ELSE factorial(args[1])
      [] operator = "nPr" -> permutation(args[1], args[2])
      [] operator = "nCr" -> combination(args[1], args[2])
      [] OTHER -> Throw("Unknown operator", operator)

\* ---------------------------------------------------------------- parser.js
\* TokenType; a token is {type, value}: "value" holds the symbol of a symbol
\* token and "num" the number of a NUMBER token
TokenType == {"NUMBER", "OPERATOR", "FUNCTION", "LPAREN", "RPAREN", "COMMA",
              "CONSTANT", "VARIABLE"}
Tok(type, value) == [type |-> type, value |-> value, num |-> Null]
NumTok(v)        == [type |-> "NUMBER", value |-> "", num |-> v]

\* OPERATORS: precedence and associativity ("xSUP_Y" is the two-character key)
OPERATORS ==
    [o \in {"+", "MINUS", "-", "TIMES", "*", "DIVIDE", "/", "^", "xSUP_Y", "%"} |->
        [precedence    |-> IF o \in {"+", "MINUS", "-"} THEN 1
                           ELSE IF o \in {"^", "xSUP_Y"} THEN 3 ELSE 2,
         associativity |-> IF o \in {"^", "xSUP_Y"} THEN "right" ELSE "left",
         args          |-> 2]]

\* FUNCTIONS, in the order of the table (the order "for (funcName in
\* FUNCTIONS)" visits the keys); chars is the name as characters
FUNCTIONS == <<
    [name |-> "sin",  chars |-> <<"s", "i", "n">>, args |-> 1],
    [name |-> "cos",  chars |-> <<"c", "o", "s">>, args |-> 1],
    [name |-> "tan",  chars |-> <<"t", "a", "n">>, args |-> 1],
    [name |-> "sinSUP_MINUSSUP_ONE",
     chars |-> <<"s", "i", "n", "SUP_MINUS", "SUP_ONE">>, args |-> 1],
    [name |-> "cosSUP_MINUSSUP_ONE",
     chars |-> <<"c", "o", "s", "SUP_MINUS", "SUP_ONE">>, args |-> 1],
    [name |-> "tanSUP_MINUSSUP_ONE",
     chars |-> <<"t", "a", "n", "SUP_MINUS", "SUP_ONE">>, args |-> 1],
    [name |-> "asin", chars |-> <<"a", "s", "i", "n">>, args |-> 1],
    [name |-> "acos", chars |-> <<"a", "c", "o", "s">>, args |-> 1],
    [name |-> "atan", chars |-> <<"a", "t", "a", "n">>, args |-> 1],
    [name |-> "sinh", chars |-> <<"s", "i", "n", "h">>, args |-> 1],
    [name |-> "cosh", chars |-> <<"c", "o", "s", "h">>, args |-> 1],
    [name |-> "tanh", chars |-> <<"t", "a", "n", "h">>, args |-> 1],
    [name |-> "log",  chars |-> <<"l", "o", "g">>, args |-> 1],
    [name |-> "ln",   chars |-> <<"l", "n">>, args |-> 1],
    [name |-> "SQRT_SIGN", chars |-> <<"SQRT_SIGN">>, args |-> 1],
    [name |-> "sqrt", chars |-> <<"s", "q", "r", "t">>, args |-> 1],
    [name |-> "CBRT_SIGN", chars |-> <<"CBRT_SIGN">>, args |-> 1],
    [name |-> "FOURTHRT_SIGN", chars |-> <<"FOURTHRT_SIGN">>, args |-> 1],
    [name |-> "abs",  chars |-> <<"a", "b", "s">>, args |-> 1],
    [name |-> "Abs",  chars |-> <<"A", "b", "s">>, args |-> 1] >>

\* the table of constants of parser.js (its name is a reserved word here), in
\* the order of the table; Math.PI and Math.E are positive numbers the model
\* does not track
ConstantsTable == <<
    [name |-> "PI", chars |-> <<"PI">>,       val |-> UnrepS(1)],
    [name |-> "pi", chars |-> <<"p", "i">>,   val |-> UnrepS(1)],
    [name |-> "e",  chars |-> <<"e">>,        val |-> UnrepS(1)],
    [name |-> "E",  chars |-> <<"E">>,        val |-> UnrepS(1)] >>

Digits == {"0", "1", "2", "3", "4", "5", "6", "7", "8", "9"}
DigitVal(c) == CASE c = "0" -> 0 [] c = "1" -> 1 [] c = "2" -> 2 [] c = "3" -> 3
                 [] c = "4" -> 4 [] c = "5" -> 5 [] c = "6" -> 6 [] c = "7" -> 7
                 [] c = "8" -> 8 [] c = "9" -> 9
UpperLetters == {"A", "B", "C", "D", "E", "F", "G", "H", "I", "J", "K", "L", "M",
                 "N", "O", "P", "Q", "R", "S", "T", "U", "V", "W", "X", "Y", "Z"}
LowerLetters == {"a", "b", "c", "d", "e", "f", "g", "h", "i", "j", "k", "l", "m",
                 "n", "o", "p", "q", "r", "s", "t", "u", "v", "w", "x", "y", "z"}
\* the characters /\s/ matches
Whitespace == {" ", "\t", "\n"}

\* expression.substr(i, Len(name)) === name   (i counts from 1 here)
SubstrIs(expression, i, name) ==
    /\ i + Len(name) - 1 <= Len(expression)
    /\ SubSeq(expression, i, i + Len(name) - 1) = name

\* the first entry of an ordered table whose name starts at i, or 0
FirstMatch(table, expression, i) ==
    LET hits == {k \in 1..Len(table) : SubstrIs(expression, i, table[k].chars)}
    IN  IF hits = {} THEN 0 ELSE CHOOSE k \in hits : \A h \in hits : k <= h

\* the end of the run of digits and '.' that starts at i (first index after)
RECURSIVE NumEnd(_, _)
NumEnd(expression, i) ==
    IF i <= Len(expression) /\ expression[i] \in Digits \cup {"."}
    THEN NumEnd(expression, i + 1)
    ELSE i

\* the value of a string of digits, read left to right
RECURSIVE DigitsVal(_, _, _)
DigitsVal(str, i, acc) ==
    IF i > Len(str) THEN acc
    ELSE DigitsVal(str, i + 1, Add(Mul(acc, Int2V(10)), Int2V(DigitVal(str[i]))))

\* the length of the run of digits of str that starts at i
RECURSIVE DigitRun(_, _)
DigitRun(str, i) ==
    IF i <= Len(str) /\ str[i] \in Digits THEN 1 + DigitRun(str, i + 1) ELSE 0

\* parseFloat(str) for a string of digits and '.': the longest prefix of the
\* form digits [. digits] with at least one digit, NaN when there is none
parseFloat(str) ==
    LET il    == DigitRun(str, 1)
        dot   == il + 1 <= Len(str) /\ str[il + 1] = "."
        fl    == IF dot THEN DigitRun(str, il + 2) ELSE 0
        ipart == DigitsVal(SubSeq(str, 1, il), 1, Zero)
        fpart == Div(DigitsVal(SubSeq(str, il + 2, il + 1 + fl), 1, Zero),
                     Pow(Int2V(10), Int2V(fl)))
    IN  IF il + fl = 0 THEN NaN ELSE Add(ipart, fpart)

\* the unary-minus test of tokenize: a '-' or U+2212 at the start, or after
\* an operator or a left parenthesis
IsUnaryMinus(char, i, tokens) ==
    /\ char \in {"-", "MINUS"}
    /\ \/ i = 1
       \/ Len(tokens) = 0
       \/ tokens[Len(tokens)].type \in {"OPERATOR", "LPAREN"}

\* the scanning loop of tokenize, from 1-based position i
RECURSIVE tokenizeFrom(_, _, _)
tokenizeFrom(expression, i, tokens) ==
    IF i > Len(expression) THEN tokens
    ELSE LET char == expression[i]
             f    == FirstMatch(FUNCTIONS, expression, i)
             c    == FirstMatch(ConstantsTable, expression, i)
         IN  IF char \in Digits \cup {"."}
             THEN LET j == NumEnd(expression, i)
                  IN  tokenizeFrom(expression, j,
                        Append(tokens, NumTok(parseFloat(SubSeq(expression, i, j - 1)))))
             ELSE IF f # 0
             THEN tokenizeFrom(expression, i + Len(FUNCTIONS[f].chars),
                        Append(tokens, Tok("FUNCTION", FUNCTIONS[f].name)))
             ELSE IF c # 0
             THEN tokenizeFrom(expression, i + Len(ConstantsTable[c].chars),
                        Append(tokens, Tok("CONSTANT", ConstantsTable[c].name)))
             ELSE IF char \in DOMAIN OPERATORS
             THEN tokenizeFrom(expression, i + 1,
                        IF IsUnaryMinus(char, i, tokens)
                        THEN tokens \o <<NumTok(Int2V(-1)), Tok("OPERATOR", "TIMES")>>
                        ELSE Append(tokens, Tok("OPERATOR", char)))
             ELSE IF char = "("
             THEN tokenizeFrom(expression, i + 1, Append(tokens, Tok("LPAREN", char)))
             ELSE IF char = ")"
             THEN tokenizeFrom(expression, i + 1, Append(tokens, Tok("RPAREN", char)))
             ELSE IF char = ","
             THEN tokenizeFrom(expression, i + 1, Append(tokens, Tok("COMMA", char)))
             ELSE IF char \in UpperLetters \cup LowerLetters
             THEN tokenizeFrom(expression, i + 1, Append(tokens, Tok("VARIABLE", char)))
             ELSE tokenizeFrom(expression, i + 1, tokens)

\* tokenize(expression): whitespace is removed first
tokenize(expression) ==
    tokenizeFrom(SelectSeq(expression, LAMBDA ch : ch \notin Whitespace), 1, <<>>)

\* what parseToRPN / parse end with: the RPN tokens, or a thrown Error(msg)
PRet(ts)   == [ok |-> TRUE,  toks |-> ts,   msg |-> ""]
PThrow(m)  == [ok |-> FALSE, toks |-> <<>>, msg |-> m]

Top(stack)  == stack[Len(stack)]
Pop(stack)  == SubSeq(stack, 1, Len(stack) - 1)

\* PopCountToLParen that does not stop at a left parenthesis
PopCountPastLParen(stack) == Len(stack)

\* "while the stack is not empty and its top is no LPAREN, pop to output":
\* the number of tokens that loop pops
RECURSIVE PopCountToLParen(_)
PopCountToLParen(stack) ==
    IF Len(stack) > 0 /\ Top(stack).type # "LPAREN"
    THEN 1 + PopCountToLParen(Pop(stack))
    ELSE 0

\* Popped without the token on top
RECURSIVE PoppedBelowTop(_, _, _)
PoppedBelowTop(stack, lo, hi) ==
    IF hi <= lo THEN <<>> ELSE <<stack[hi - 1]>> \o PoppedBelowTop(stack, lo, hi - 1)

\* the tokens of stack[lo..hi] in the order they are popped (top first)
RECURSIVE Popped(_, _, _)
Popped(stack, lo, hi) ==
    IF hi < lo THEN <<>> ELSE <<stack[hi]>> \o Popped(stack, lo, hi - 1)

\* PopsBefore without the precedence test: every left-associative operator
\* pops the operator below it, so a chain is evaluated from left to right
PopsBeforeNoPrecedence(op1, op2) == op1.associativity = "left"

\* PopsBefore with every operator treated as left-associative
PopsBeforeAllLeft(op1, op2) == op1.precedence <= op2.precedence

\* op1 pops the operator op2 below it: the test of the OPERATOR case
PopsBefore(op1, op2) ==
    \/ op1.associativity = "left"  /\ op1.precedence <= op2.precedence
    \/ op1.associativity = "right" /\ op1.precedence <  op2.precedence

\* the number of operators the OPERATOR case pops for the operator token
RECURSIVE PopCountForOp(_, _)
PopCountForOp(token, stack) ==
    IF /\ Len(stack) > 0
       /\ Top(stack).type = "OPERATOR"
       /\ PopsBefore(OPERATORS[token.value], OPERATORS[Top(stack).value])
    THEN 1 + PopCountForOp(token, Pop(stack))
    ELSE 0

\* the loop of parseToRPN over tokens[i..], then the final pops
RECURSIVE parseLoop(_, _, _, _)
parseLoop(tokens, i, output, operatorStack) ==
    IF i > Len(tokens)
    THEN IF \E k \in 1..Len(operatorStack) :
               operatorStack[k].type \in {"LPAREN", "RPAREN"}
         THEN PThrow("Mismatched parentheses")
         ELSE PRet(output \o Popped(operatorStack, 1, Len(operatorStack)))
    ELSE LET token == tokens[i]
             n     == Len(operatorStack)
         IN  CASE token.type \in {"NUMBER", "CONSTANT", "VARIABLE"} ->
                    parseLoop(tokens, i + 1, Append(output, token), operatorStack)
               [] token.type \in {"FUNCTION", "LPAREN"} ->
                    parseLoop(tokens, i + 1, output, Append(operatorStack, token))
               [] token.type = "COMMA" ->
                    LET p == PopCountToLParen(operatorStack)
                    IN  parseLoop(tokens, i + 1,
                                  output \o Popped(operatorStack, n - p + 1, n),
                                  SubSeq(operatorStack, 1, n - p))
               [] token.type = "OPERATOR" ->
                    LET p == PopCountForOp(token, operatorStack)
                    IN  parseLoop(tokens, i + 1,
                                  output \o Popped(operatorStack, n - p + 1, n),
                                  Append(SubSeq(operatorStack, 1, n - p), token))
               [] token.type = "RPAREN" ->
                    LET p    == PopCountToLParen(operatorStack)
                        out1 == output \o Popped(operatorStack, n - p + 1, n)
                        \* the stack once the left parenthesis is removed
                        st2  == SubSeq(operatorStack, 1, n - p - 1)
                    IN  IF n - p = 0 THEN PThrow("Mismatched parentheses")
                        ELSE IF Len(st2) > 0 /\ Top(st2).type = "FUNCTION"
                        THEN parseLoop(tokens, i + 1, Append(out1, Top(st2)), Pop(st2))
                        ELSE parseLoop(tokens, i + 1, out1, st2)
               [] OTHER -> parseLoop(tokens, i + 1, output, operatorStack)

\* parseToRPN(tokens)
parseToRPN(tokens) == parseLoop(tokens, 1, <<>>, <<>>)

\* parse(expression)
parse(expression) == parseToRPN(tokenize(expression))

\* -------------------------------------------------------------- evaluator.js
\* FUNCTIONS[name]: the index of the entry, 0 when there is none
FuncIndex(name) ==
    LET hits == {k \in 1..Len(FUNCTIONS) : FUNCTIONS[k].name = name}
    IN  IF hits = {} THEN 0 ELSE CHOOSE k \in hits : TRUE

\* the value of the constant (its name is one of the table's)
ConstantValue(name) ==
    LET hits == {k \in 1..Len(ConstantsTable) : ConstantsTable[k].name = name}
    IN  IF hits = {} THEN Null ELSE ConstantsTable[CHOOSE k \in hits : TRUE].val

\* memory[key]: Null for a missing key (undefined) and for a null register
Lookup(mem, key) == IF key \in DOMAIN mem THEN mem[key] ELSE Null

DigitChar(d) == CASE d = 0 -> "0" [] d = 1 -> "1" [] d = 2 -> "2" [] d = 3 -> "3"
                  [] d = 4 -> "4" [] d = 5 -> "5" [] d = 6 -> "6" [] d = 7 -> "7"
                  [] d = 8 -> "8" [] d = 9 -> "9"
\* a natural number in a message: 'stack has ' + stack.length + ' items'
RECURSIVE NumberToString(_)
NumberToString(n) == IF n < 10 THEN DigitChar(n)
                     ELSE NumberToString(n \div 10) \o DigitChar(n % 10)

\* the loop of evaluate over rpnTokens[i..] with the value stack
RECURSIVE evalLoop(_, _, _, _, _)
evalLoop(rpnTokens, i, stack, unit, mem) ==
    IF i > Len(rpnTokens)
    THEN IF Len(stack) # 1
         THEN Throw("Invalid expression: stack has " \o NumberToString(Len(stack))
                    \o " items", "")
         ELSE Ret(stack[1])
    ELSE LET token == rpnTokens[i]
             n     == Len(stack)
         IN  CASE token.type = "NUMBER" ->
                    evalLoop(rpnTokens, i + 1, Append(stack, token.num), unit, mem)
               [] token.type = "CONSTANT" ->
                    IF ConstantValue(token.value) # Null
                    THEN evalLoop(rpnTokens, i + 1,
                                  Append(stack, ConstantValue(token.value)), unit, mem)
                    ELSE Throw("Unknown constant", token.value)
               [] token.type = "VARIABLE" ->
                    IF Lookup(mem, token.value) # Null
                    THEN evalLoop(rpnTokens, i + 1,
                                  Append(stack, Lookup(mem, token.value)), unit, mem)
                    ELSE Throw("Undefined variable", token.value)
               [] token.type = "OPERATOR" ->
                    IF n < 2 THEN Throw("Insufficient operands for operator", "")
                    ELSE LET result == evaluateOperation(token.value,
                                            <<stack[n - 1], stack[n]>>, unit)
                         IN  IF ~result.ok THEN result
                             ELSE evalLoop(rpnTokens, i + 1,
                                           Append(SubSeq(stack, 1, n - 2), result.val),
                                           unit, mem)
               [] token.type = "FUNCTION" ->
                    LET f == FuncIndex(token.value)
                    IN  IF f = 0 THEN Throw("Unknown function", token.value)
                        ELSE IF n < FUNCTIONS[f].args
                        THEN Throw("Insufficient arguments for function", token.value)
                        ELSE LET a == FUNCTIONS[f].args
                                 funcResult == evaluateOperation(token.value,
                                                  SubSeq(stack, n - a + 1, n), unit)
                             IN  IF ~funcResult.ok THEN funcResult
                                 ELSE evalLoop(rpnTokens, i + 1,
                                         Append(SubSeq(stack, 1, n - a), funcResult.val),
                                         unit, mem)
               [] OTHER -> Throw("Unknown token type", token.type)

\* evaluate without the checks of the stack's length: what is left at the end
\* is not counted
evaluateUncounted(rpnTokens, unit, mem) ==
    LET r == evalLoop(rpnTokens, 1, <<>>, unit, mem)
    IN  IF r.msg \in {"Invalid expression: stack has " \o NumberToString(h) \o " items" :
                        h \in 0..(2 * MaxTokens + 8)}
        THEN Ret(Null) ELSE r

\* evaluate(rpnTokens, context) with context = {angleUnit, memory}
evaluate(rpnTokens, unit, mem) == evalLoop(rpnTokens, 1, <<>>, unit, mem)

\* evaluateExpression(expression, context): parse, then evaluate; an error of
\* either is logged and thrown again
evaluateExpression(expression, unit, mem) ==
    LET rpn == parse(expression)
    IN  IF ~rpn.ok THEN Throw(rpn.msg, "") ELSE evaluate(rpn.toks, unit, mem)

\* ------------------------------------------------------------------- app.js
\* state.memory as app.js creates it: M is 0, the other registers are null
Registers == {"M", "A", "B", "C", "D", "E", "F", "X", "Y"}
InitialMemory == [r \in Registers |-> IF r = "M" THEN Zero ELSE Null]
\* the other fields of state as app.js creates them (error "" for null), the
\* position of the cursor manager, the fields of the history manager, the
\* number of setError timers pending and the number of keys pressed so far
InitialState ==
    [mode |-> "Math", shift |-> FALSE, alpha |-> FALSE, inputBuffer |-> <<>>,
     stack |-> <<>>, lastAns |-> Zero, cursorPosition |-> 0, error |-> "",
     position |-> 0, history |-> <<>>, currentIndex |-> -1, tempBuffer |-> <<>>,
     timers |-> 0, presses |-> 0]

\* evaluateWithState(expression): evaluateExpression in the calculator's state
evaluateWithState(expression, unit, mem) == evaluateExpression(expression, unit, mem)

\* ------------------------------------- complex.js: the equation solver
\* a > b, a >= b as JavaScript compares numbers (false with NaN)
Gt(a, b) == Lt(b, a)
Ge(a, b) == Le(b, a)

\* Math.abs(v) < 1e-12: every tracked non-zero number has a magnitude of at
\* least 1/MaxMag, which is above 1e-12
BelowTiny(v) == IsNum(v) /\ v.n = 0

\* every value is tracked (a comparison of them is what the code computes)
Tracked(values) == \A v \in values : ~IsUnrep(v)

\* the defaults of the options: tolerance = 1e-8, maxIterations = 100,
\* h = 1e-7 (newton), maxDepth = 20 (integrate)
DefaultTolerance == Num(1, 100000000)
DefaultMaxIterations == 100
DefaultH == Num(1, 10000000)
DefaultMaxDepth == 20
Two == Int2V(2)

\* variable.toUpperCase() for a one-letter variable
LowerSeq == <<"a", "b", "c", "d", "e", "f", "g", "h", "i", "j", "k", "l", "m",
              "n", "o", "p", "q", "r", "s", "t", "u", "v", "w", "x", "y", "z">>
UpperSeq == <<"A", "B", "C", "D", "E", "F", "G", "H", "I", "J", "K", "L", "M",
              "N", "O", "P", "Q", "R", "S", "T", "U", "V", "W", "X", "Y", "Z">>
toUpperCase(ch) ==
    IF \E i \in 1..Len(LowerSeq) : LowerSeq[i] = ch
    THEN UpperSeq[CHOOSE i \in 1..Len(LowerSeq) : LowerSeq[i] = ch]
    ELSE ch

\* state.memory[variable.toUpperCase()] = value: the key is added when the
\* object does not have it
Bound(mem, variable, value) ==
    [key \in DOMAIN mem \cup {toUpperCase(variable)} |->
        IF key = toUpperCase(variable) THEN value ELSE mem[key]]

\* no call was made before the running one
NoCall == [made |-> FALSE, outcome |-> Ret(Null), samples |-> <<>>]

\* the local variables of the running solve / integrate call and of the
\* method it runs; arg, ret and fout belong to the call of f in progress
\* (its argument, where it returns to, what the evaluation ended with)
NoLocals ==
    [a |-> Zero, b |-> Zero, c |-> Zero, d |-> Zero, e |-> Zero,
     fa |-> Zero, fb |-> Zero, fc |-> Zero,
     x |-> Zero, fx |-> Zero, fph |-> Zero,
     x0 |-> Zero, x1 |-> Zero, fx0 |-> Zero,
     i |-> 0, iterations |-> 0,
     arg |-> Zero, ret |-> "", fout |-> Ret(Null),
     negate |-> FALSE, result |-> Zero, frames |-> <<>>]

\* what one pass through a method's code ends with: a returned value, a
\* thrown error, a call of f(arg) whose result the code continues with, or
\* a comparison of untracked values
Return(v)     == [kind |-> "return", val |-> v,    msg |-> "", s |-> NoLocals]
Raise(m)      == [kind |-> "throw",  val |-> Null, msg |-> m,  s |-> NoLocals]
CallOf(v, s)  == [kind |-> "call",   val |-> v,    msg |-> "", s |-> s]
Untracked     == [kind |-> "limit",  val |-> Null, msg |-> "", s |-> NoLocals]

\* brent: after fa = f(a), fb = f(b): the sign test, the swap and the
\* initial c, fc, d, e
brentEnter(s) ==
    IF ~Tracked({s.fa, s.fb, Mul(s.fa, s.fb)}) THEN Untracked
    ELSE IF Gt(Mul(s.fa, s.fb), Zero)
    THEN Raise("Function must have different signs at bounds")
    ELSE LET sw == Lt(Abs(s.fa), Abs(s.fb))
             a  == IF sw THEN s.b ELSE s.a
             b  == IF sw THEN s.a ELSE s.b
             fa == IF sw THEN s.fb ELSE s.fa
             fb == IF sw THEN s.fa ELSE s.fb
         IN  CallOf(Null, [s EXCEPT !.a = a, !.b = b, !.fa = fa, !.fb = fb,
                                    !.c = a, !.fc = fa,
                                    !.d = Sub(b, a), !.e = Sub(b, a),
                                    !.iterations = 0])

\* brent, in the loop: if (fa * fb > 0) { c = a; fc = fa; d = e = b - a }
brentReset(s) ==
    IF Gt(Mul(s.fa, s.fb), Zero)
    THEN [s EXCEPT !.c = s.a, !.fc = s.fa, !.d = Sub(s.b, s.a), !.e = Sub(s.b, s.a)]
    ELSE s

\* brent, in the loop: if (|fc| < |fb|) { a = b; b = c; c = a; fa = fb;
\* fb = fc; fc = fa }
brentRotate(s) ==
    IF Lt(Abs(s.fc), Abs(s.fb))
    THEN [s EXCEPT !.a = s.b, !.b = s.c, !.c = s.b,
                   !.fa = s.fb, !.fb = s.fc, !.fc = s.fb]
    ELSE s

\* tol1 = 2 * tolerance * |b| + tolerance / 2 and xm = (c - b) / 2
brentTol1(s, tolerance) == Add(Mul(Mul(Two, tolerance), Abs(s.b)), Div(tolerance, Two))
brentXm(s) == Div(Sub(s.c, s.b), Two)

\* the p and q of the interpolation, before their signs are set
brentP(s, xm) ==
    LET sr == Div(s.fb, s.fa)
        q1 == Div(s.fa, s.fc)
        q2 == Div(s.fb, s.fc)
    IN  IF StrictEq(s.a, s.c)
        THEN Mul(Mul(Two, xm), sr)
        ELSE Mul(sr, Sub(Mul(Mul(Mul(Two, xm), q1), Sub(q1, q2)),
                         Mul(Sub(s.b, s.a), Sub(q2, One))))
brentQ(s) ==
    LET sr == Div(s.fb, s.fa)
        q1 == Div(s.fa, s.fc)
        q2 == Div(s.fb, s.fc)
    IN  IF StrictEq(s.a, s.c)
        THEN Sub(One, sr)
        ELSE Mul(Mul(Sub(q1, One), Sub(q2, One)), Sub(sr, One))

\* the end of the loop body with the step d and the new e: a = b; fa = fb;
\* b += d or +/- tol1; then fb = f(b) is called
brentAdvance(s, d, e, xm, tol1) ==
    LET bNew == IF Gt(Abs(d), tol1) THEN Add(s.b, d)
                ELSE Add(s.b, IF Gt(xm, Zero) THEN tol1 ELSE Neg(tol1))
    IN  IF ~Tracked({d, bNew}) THEN Untracked
        ELSE CallOf(bNew, [s EXCEPT !.d = d, !.e = e, !.a = s.b, !.fa = s.fb,
                                    !.b = bNew])

\* the interpolation with p0, q0: the signs of p and q, and the test that
\* accepts d = p / q (e becomes the old d) or falls back to bisection
brentInterpolate(s, p0, q0, xm, tol1) ==
    LET p  == IF Gt(p0, Zero) THEN p0 ELSE Neg(p0)
        q  == IF Gt(p0, Zero) THEN Neg(q0) ELSE q0
        lim1 == Sub(Mul(Mul(Int2V(3), xm), q), Abs(Mul(tol1, q)))
        lim2 == Abs(Mul(Mul(Num(1, 2), s.e), q))
    IN  IF ~Tracked({p0, q0, Mul(Two, p), lim1, lim2, Div(p, q)}) THEN Untracked
        ELSE IF Lt(Mul(Two, p), lim1) /\ Lt(p, lim2)
        THEN brentAdvance(s, Div(p, q), s.d, xm, tol1)
        ELSE brentAdvance(s, xm, xm, xm, tol1)

\* the loop body from the test of xm against tol1 on
brentRest(s, xm, tol1) ==
    IF ~Tracked({tol1, xm}) THEN Untracked
    ELSE IF Le(Abs(xm), tol1) \/ StrictEq(s.fb, Zero) THEN Return(s.b)
    ELSE IF Ge(Abs(s.e), tol1) /\ Gt(Abs(s.fa), Abs(s.fb))
    THEN brentInterpolate(s, brentP(s, xm), brentQ(s), xm, tol1)
    ELSE brentAdvance(s, xm, xm, xm, tol1)

brentPass(s, tolerance) == brentRest(s, brentXm(s), brentTol1(s, tolerance))

\* brent: the body of the loop up to "fb = f(b)"
brentBody(s, tolerance) ==
    IF ~Tracked({s.a, s.b, s.c, s.d, s.e, s.fa, s.fb, s.fc, Mul(s.fa, s.fb)})
    THEN Untracked
    ELSE IF Lt(Abs(s.fb), tolerance) THEN Return(s.b)
    ELSE brentPass(brentRotate(brentReset(s)), tolerance)

\* newton: after fx = f(x): the test of the residual, else df(x) starts
newtonResidual(s, tolerance) ==
    IF ~Tracked({s.x, s.fx}) THEN Untracked
    ELSE IF Lt(Abs(s.fx), tolerance) THEN Return(s.x)
    ELSE CallOf(Add(s.x, DefaultH), s)

\* newtonStep without the test of the derivative
newtonStepUnchecked(s, fmh, tolerance) ==
    LET dfx  == Div(Sub(s.fph, fmh), Mul(Two, DefaultH))
        xNew == Sub(s.x, Div(s.fx, dfx))
    IN  IF ~Tracked({dfx, xNew, Sub(xNew, s.x)}) THEN Untracked
        ELSE IF Lt(Abs(Sub(xNew, s.x)), tolerance) THEN Return(xNew)
        ELSE CallOf(Null, [s EXCEPT !.x = xNew, !.iterations = @ + 1])

\* newton: after df(x) = (f(x + h) - f(x - h)) / (2 * h), fmh being f(x - h)
newtonStep(s, fmh, tolerance) ==
    LET dfx  == Div(Sub(s.fph, fmh), Mul(Two, DefaultH))
        xNew == Sub(s.x, Div(s.fx, dfx))
    IN  IF ~Tracked({dfx}) THEN Untracked
        ELSE IF BelowTiny(dfx) THEN Raise("Derivative too small, Newton method failed")
        ELSE IF ~Tracked({xNew, Sub(xNew, s.x)}) THEN Untracked
        ELSE IF Lt(Abs(Sub(xNew, s.x)), tolerance) THEN Return(xNew)
        ELSE CallOf(Null, [s EXCEPT !.x = xNew, !.iterations = @ + 1])

\* secant: after fx0 = f(x0) and fx1 = f(x1)
secantStep(s, fx1, tolerance) ==
    LET x2 == Sub(s.x1, Div(Mul(fx1, Sub(s.x1, s.x0)), Sub(fx1, s.fx0)))
    IN  IF ~Tracked({s.fx0, fx1, Sub(fx1, s.fx0)}) THEN Untracked
        ELSE IF Lt(Abs(fx1), tolerance) THEN Return(s.x1)
        ELSE IF BelowTiny(Sub(fx1, s.fx0)) THEN Raise("Division by zero in secant method")
        ELSE IF ~Tracked({x2, Sub(x2, s.x1)}) THEN Untracked
        ELSE IF Lt(Abs(Sub(x2, s.x1)), tolerance) THEN Return(x2)
        ELSE CallOf(Null, [s EXCEPT !.x0 = s.x1, !.x1 = x2, !.iterations = @ + 1])

\* bisection: after fa = f(a) and fb = f(b), before the loop
bisectionEnter(s, tolerance) ==
    IF ~Tracked({s.fa, s.fb, Mul(s.fa, s.fb)}) THEN Untracked
    ELSE IF Gt(Mul(s.fa, s.fb), Zero)
    THEN Raise("Function must have different signs at bounds")
    ELSE IF Lt(Abs(s.fa), tolerance) THEN Return(s.a)
    ELSE IF Lt(Abs(s.fb), tolerance) THEN Return(s.b)
    ELSE CallOf(Null, [s EXCEPT !.iterations = 0])

\* bisectionStep that replaces the endpoint whose value has the other sign
bisectionStepOtherEnd(s, tolerance) ==
    IF ~Tracked({s.fc, s.fa, Sub(s.b, s.a), Mul(s.fa, s.fc)}) THEN Untracked
    ELSE IF Lt(Abs(s.fc), tolerance) \/ Lt(Abs(Sub(s.b, s.a)), tolerance)
    THEN Return(s.c)
    ELSE IF Gt(Mul(s.fa, s.fc), Zero)
    THEN CallOf(Null, [s EXCEPT !.b = s.c, !.fb = s.fc, !.iterations = @ + 1])
    ELSE CallOf(Null, [s EXCEPT !.a = s.c, !.fa = s.fc, !.iterations = @ + 1])

\* bisection: the body of the loop after fc = f(c)
bisectionStep(s, tolerance) ==
    IF ~Tracked({s.fc, s.fa, Sub(s.b, s.a), Mul(s.fa, s.fc)}) THEN Untracked
    ELSE IF Lt(Abs(s.fc), tolerance) \/ Lt(Abs(Sub(s.b, s.a)), tolerance)
    THEN Return(s.c)
    ELSE IF Lt(Mul(s.fa, s.fc), Zero)
    THEN CallOf(Null, [s EXCEPT !.b = s.c, !.fb = s.fc, !.iterations = @ + 1])
    ELSE CallOf(Null, [s EXCEPT !.a = s.c, !.fa = s.fc, !.iterations = @ + 1])

\* ------------------------------ integration.js: the adaptive integrator
\* the parameters and local variables of one call of adaptiveSimpson; stage
\* tells which of its two recursive calls is running
Frame(a, b, epsilon, S, fa, fb, fc, depth) ==
    [a |-> a, b |-> b, epsilon |-> epsilon, S |-> S, fa |-> fa, fb |-> fb,
     fc |-> fc, depth |-> depth, fd |-> Zero, fe |-> Zero,
     Sleft |-> Zero, Sright |-> Zero, left |-> Zero, stage |-> "body"]

\* simpsonEstimate with the weight 2 at the midpoint
simpsonEstimateMidTwo(a, b, fa, fb, fc) ==
    Mul(Div(Sub(b, a), Int2V(6)), Add(Add(fa, Mul(Int2V(2), fc)), fb))

\* (h / 6) * (fa + 4 * fc + fb)
simpsonEstimate(a, b, fa, fb, fc) ==
    Mul(Div(Sub(b, a), Int2V(6)), Add(Add(fa, Mul(Int2V(4), fc)), fb))

\* adaptiveSimpson: the two half estimates (h / 12) * (...)
halfEstimate(a, b, f0, fm, f1) ==
    Mul(Div(Sub(b, a), Int2V(12)), Add(Add(f0, Mul(Int2V(4), fm)), f1))

\* adaptiveStep without the test of fd and fe
adaptiveStepUnguarded(fr) ==
    LET Sleft  == halfEstimate(fr.a, fr.b, fr.fa, fr.fd, fr.fc)
        Sright == halfEstimate(fr.a, fr.b, fr.fc, fr.fe, fr.fb)
        S2     == Add(Sleft, Sright)
        diff   == Sub(S2, fr.S)
        bound  == Mul(Int2V(15), fr.epsilon)
        refined == Add(S2, Div(diff, Int2V(15)))
    IN  IF fr.depth <= 0 THEN Return(refined)
        ELSE IF ~Tracked({diff, bound, Sub(Abs(diff), bound)}) THEN Untracked
        ELSE IF Le(Abs(diff), bound) THEN Return(refined)
        ELSE CallOf(Null, [fr EXCEPT !.Sleft = Sleft, !.Sright = Sright,
                                     !.stage = "left"])

\* adaptiveSimpson after fd = f(d) and fe = f(e): throw, return the refined
\* estimate, or recurse into both halves ("call")
adaptiveStep(fr) ==
    LET Sleft  == halfEstimate(fr.a, fr.b, fr.fa, fr.fd, fr.fc)
        Sright == halfEstimate(fr.a, fr.b, fr.fc, fr.fe, fr.fb)
        S2     == Add(Sleft, Sright)
        diff   == Sub(S2, fr.S)
        bound  == Mul(Int2V(15), fr.epsilon)
        refined == Add(S2, Div(diff, Int2V(15)))
    IN  IF ~isFinite(fr.fd) \/ ~isFinite(fr.fe)
        THEN Raise("Function returned non-finite value")
        ELSE IF fr.depth <= 0 THEN Return(refined)
        ELSE IF ~Tracked({diff, bound, Sub(Abs(diff), bound)}) THEN Untracked
        ELSE IF Le(Abs(diff), bound) THEN Return(refined)
        ELSE CallOf(Null, [fr EXCEPT !.Sleft = Sleft, !.Sright = Sright,
                                     !.stage = "left"])

\* leftHalf called with depth in place of depth - 1
leftHalfSameDepth(fr) ==
    Frame(fr.a, Div(Add(fr.a, fr.b), Two), Div(fr.epsilon, Two), fr.Sleft,
          fr.fa, fr.fc, fr.fd, fr.depth)

\* the frames of the two recursive calls of adaptiveSimpson
leftHalf(fr) ==
    Frame(fr.a, Div(Add(fr.a, fr.b), Two), Div(fr.epsilon, Two), fr.Sleft,
          fr.fa, fr.fc, fr.fd, fr.depth - 1)
rightHalf(fr) ==
    Frame(Div(Add(fr.a, fr.b), Two), fr.b, Div(fr.epsilon, Two), fr.Sright,
          fr.fc, fr.fb, fr.fe, fr.depth - 1)

\* ------------------------------------------------------ the expressions tried
Lits == 0..MaxNum
AsciiOps == {"+", "-", "*", "/", "^"}
TypoOps  == {"TIMES", "DIVIDE", "MINUS"}
BinOps   == AsciiOps \cup TypoOps \cup {"%"}
MinusSigns == {"-", "MINUS"}
FuncNames == {FUNCTIONS[k].chars : k \in 1..Len(FUNCTIONS)}
DomainFuncs == {<<"s", "q", "r", "t">>, <<"l", "o", "g">>, <<"l", "n">>}
\* the letters tried as an expression: the registers, a letter that is no
\* register, and lower-case letters
VarLetters == Registers \cup {"Z", "x", "m", "e"}

\* String(n) for a natural n: its decimal digits
RECURSIVE NumStr(_)
NumStr(n) == IF n < 10 THEN <<DigitChar(n)>>
             ELSE NumStr(n \div 10) \o <<DigitChar(n % 10)>>

\* a case: every field is present in every shape, unused ones at a default
Case(shape, a, b, c, o1, o2, f, v) ==
    [shape |-> shape, a |-> a, b |-> b, c |-> c, o1 |-> o1, o2 |-> o2,
     f |-> f, v |-> v]

Shapes == {"flat", "left", "right", "neg2", "neg1", "negp", "func", "funcIn",
           "funcNeg", "fact", "factIn", "var", "lit", "text"}

\* the expression string of a case
Build(in) ==
    LET A == NumStr(in.a)
        B == NumStr(in.b)
        C == NumStr(in.c)
    IN  CASE in.shape = "flat"   -> A \o <<in.o1>> \o B \o <<in.o2>> \o C
          [] in.shape = "left"   -> <<"(">> \o A \o <<in.o1>> \o B \o <<")", in.o2>> \o C
          [] in.shape = "right"  -> A \o <<in.o1, "(">> \o B \o <<in.o2>> \o C \o <<")">>
          \* a op -b
          [] in.shape = "neg2"   -> A \o <<in.o1, in.o2>> \o B
          \* -a op b
          [] in.shape = "neg1"   -> <<in.o2>> \o A \o <<in.o1>> \o B
          \* a op (-b)
          [] in.shape = "negp"   -> A \o <<in.o1, "(", in.o2>> \o B \o <<")">>
          \* f(a op b)
          [] in.shape = "func"   -> in.f \o <<"(">> \o A \o <<in.o1>> \o B \o <<")">>
          \* c op2 f(a - b)
          [] in.shape = "funcIn" -> C \o <<in.o2>> \o in.f \o <<"(">> \o A \o <<in.o1>>
                                      \o B \o <<")">>
          \* f(-a)
          [] in.shape = "funcNeg" -> in.f \o <<"(", in.o2>> \o A \o <<")">>
          \* a!
          [] in.shape = "fact"   -> A \o <<"!">>
          \* (a op b)!
          [] in.shape = "factIn" -> <<"(">> \o A \o <<in.o1>> \o B \o <<")", "!">>
          \* a single letter
          [] in.shape = "var"    -> <<in.v>>
          \* a literal of digits and '.'
          [] in.shape = "lit"    -> in.f
          \* the characters as given
          [] in.shape = "text"   -> in.f

\* literal strings of digits and '.', up to three characters
LitChars == {"0", "1", "5", "."}
LitStrings == UNION {[1..n -> LitChars] : n \in 1..3}

NoF == <<>>
\* the examples of the test suite and of the documentation
Examples == {
    Case("flat", 2, 3, 4, "+", "*", NoF, "M"),
    Case("left", 2, 3, 4, "+", "*", NoF, "M"),
    Case("flat", 2, 3, 2, "^", "^", NoF, "M"),
    Case("neg1", 3, 5, 0, "+", "-", NoF, "M"),
    Case("neg2", 5, 2, 0, "*", "-", NoF, "M"),
    Case("flat", 3, 4, 2, "+", "TIMES", NoF, "M"),
    Case("left", 3, 4, 2, "+", "TIMES", NoF, "M"),
    Case("flat", 10, 0, 0, "/", "+", NoF, "M"),
    Case("funcNeg", 1, 0, 0, "+", "-", <<"s", "q", "r", "t">>, "M"),
    Case("func", 0, 0, 0, "+", "+", <<"l", "o", "g">>, "M"),
    Case("func", 16, 0, 0, "+", "+", <<"s", "q", "r", "t">>, "M"),
    Case("fact", 5, 0, 0, "+", "+", NoF, "M") }

\* expressions that leave no value, or more than one, or too few for an
\* operator or a function
Texts == {
    <<"(", ")">>,
    <<"(", "2", ")", "(", "3", ")">>,
    <<"2", " ", "3">>,
    <<"2", "+">>,
    <<"*">>,
    <<"s", "q", "r", "t", "(", ")">>,
    <<"2", "+", "l", "n">>,
    <<"(", "2", ")">>,
    <<"s", "i", "n", "h", "(", "1", ")">>,
    <<>> }

Cases ==
    Examples \cup
    {Case("text", 0, 0, 0, "+", "+", str, "M") : str \in Texts} \cup
    {Case(sh, a, b, c, o1, o2, NoF, "M") :
        sh \in {"flat", "left", "right"}, a \in Lits, b \in Lits, c \in Lits,
        o1 \in BinOps, o2 \in BinOps}
    \cup {Case(sh, a, b, 0, o1, o2, NoF, "M") :
        sh \in {"neg2", "neg1", "negp"}, a \in Lits, b \in Lits,
        o1 \in BinOps, o2 \in MinusSigns}
    \cup {Case("func", a, b, 0, o1, "+", f, "M") :
        a \in Lits, b \in Lits, o1 \in {"+", "-"}, f \in FuncNames}
    \cup {Case("funcNeg", a, 0, 0, "+", o2, f, "M") :
        a \in Lits, o2 \in MinusSigns, f \in DomainFuncs}
    \cup {Case("funcIn", a, b, c, "-", o2, f, "M") :
        a \in Lits, b \in Lits, c \in Lits, o2 \in AsciiOps, f \in DomainFuncs}
    \cup {Case("fact", a, 0, 0, "+", "+", NoF, "M") : a \in 0..(MaxNum + 3)}
    \cup {Case("fact", a, 0, 0, "+", "+", NoF, "M") : a \in {170, 171}}
    \cup {Case("factIn", a, b, 0, o1, "+", NoF, "M") :
        a \in Lits, b \in Lits, o1 \in {"-", "/", "+"}}
    \cup {Case("lit", 0, 0, 0, "+", "+", str, "M") : str \in LitStrings}

VarCases == {Case("var", 0, 0, 0, "+", "+", NoF, v) : v \in VarLetters}

\* the register contents tried with a letter: as app.js creates them, or
\* after memoryManager.store(register, value) has set one register
StoredValues == {Int2V(i) : i \in Lits} \cup {Num(1, 2), Int2V(-1)}
Memories ==
    {InitialMemory}
    \cup {[InitialMemory EXCEPT ![r] = v] : r \in Registers, v \in StoredValues}

\* ----------------------------------------------------------- the evaluation
\* evaluateExpression is followed through its three stages
Init ==
    /\ pc = "ready"
    /\ \/ input \in Cases /\ memory = InitialMemory
       \/ input \in VarCases /\ memory \in Memories
    /\ exprIn = Build(input)
    /\ toks = <<>>
    /\ rpnOut = <<>>
    /\ outcome = Ret(Null)
    /\ angleUnit = "DEG"
    /\ originalMemory = memory
    /\ solver = NoLocals
    /\ samples = <<>>
    /\ earlier = NoCall
    /\ state = InitialState

\* parse: const tokens = tokenize(expression)
Tokenize ==
    /\ pc = "ready"
    /\ toks' = tokenize(exprIn)
    /\ pc' = "tokenized"
    /\ UNCHANGED <<input, exprIn, rpnOut, outcome, angleUnit, memory,
                 originalMemory, solver, samples, earlier, state>>

\* parse: const rpn = parseToRPN(tokens); its error ends evaluateExpression
ParseToRPN ==
    /\ pc = "tokenized"
    /\ LET r == parseToRPN(toks)
       IN  IF r.ok
           THEN rpnOut' = r.toks /\ pc' = "parsed" /\ UNCHANGED outcome
           ELSE outcome' = Throw(r.msg, "") /\ pc' = "done" /\ UNCHANGED rpnOut
    /\ UNCHANGED <<input, exprIn, toks, angleUnit, memory,
                 originalMemory, solver, samples, earlier, state>>

\* evaluateExpression: const result = evaluate(rpn, context)
Evaluate ==
    /\ pc = "parsed"
    /\ outcome' = evaluate(rpnOut, angleUnit, memory)
    /\ pc' = "done"
    /\ UNCHANGED <<input, exprIn, toks, rpnOut, angleUnit, memory,
                 originalMemory, solver, samples, earlier, state>>

Next == Tokenize \/ ParseToRPN \/ Evaluate

Spec == Init /\ [][Next]_vars

\* no checked evaluation left the range of values the model tracks
NoModelLimit == outcome.msg # "MODEL_LIMIT"

\* ------------------------------------------- parseToRPN on token sequences
\* parseToRPN is exported and takes any array of tokens, also one tokenize
\* would not produce: the tokens tried, one or two of each type
TokenAlphabet ==
    {NumTok(One), Tok("VARIABLE", "M"), Tok("OPERATOR", "+"), Tok("OPERATOR", "^"),
     Tok("FUNCTION", "sqrt"), Tok("LPAREN", "("), Tok("RPAREN", ")"),
     Tok("COMMA", ",")}
TokenSeqs == UNION {[1..n -> TokenAlphabet] : n \in 0..MaxTokens}

\* parseToRPN(tokens) is called with the tokens as given, and evaluate with
\* the RPN it returns
InitParse ==
    /\ pc = "tokenized"
    /\ toks \in TokenSeqs
    /\ input = Case("lit", 0, 0, 0, "+", "+", NoF, "M")
    /\ exprIn = <<>>
    /\ rpnOut = <<>>
    /\ outcome = Ret(Null)
    /\ angleUnit = "DEG"
    /\ memory = InitialMemory
    /\ originalMemory = InitialMemory
    /\ solver = NoLocals
    /\ samples = <<>>
    /\ earlier = NoCall
    /\ state = InitialState

NextParse == ParseToRPN \/ Evaluate

SpecParse == InitParse /\ [][NextParse]_vars

\* ------------------------------------------ solve and integrate, step by step
\* The calls tried.  A call is solve(expression, variable, guess, {method,
\* bounds, tolerance, maxIterations}) or integrate(expression, a, b,
\* {tolerance, maxDepth, variable}), made with state.memory = mem; bounds is
\* <<>> for null.
Call(fn, expression, variable, guess, a, b, method, bounds, tolerance, maxIterations, maxDepth, mem) ==
    [fn |-> fn, expression |-> expression, variable |-> variable,
     guess |-> guess, a |-> a, b |-> b, method |-> method, bounds |-> bounds,
     tolerance |-> tolerance, maxIterations |-> maxIterations,
     maxDepth |-> maxDepth, mem |-> mem]

NoBounds == <<>>

\* the unknown as it is written in the expression, and as it is named
Unknowns == {<<"X", "X">>, <<"X", "x">>, <<"x", "x">>, <<"Z", "z">>}

\* expressions in the unknown v: what solve is tried on, and integrate
SolveExpressions(v) ==
    {<<v, "-", "1">>, <<v, "*", v, "-", "4">>, <<"1", "/", v>>, <<"2">>,
     <<"s", "q", "r", "t", "(", v, ")">>, <<v, "-", "1", "2">>}
IntegrateExpressions(v) ==
    {<<v, "*", v, "*", v, "*", v>>, <<"1", "/", v>>, <<v, "-", "1">>,
     <<v, "*", v>>, <<v, "*", v, "*", v, "-", v>>,
     <<"s", "q", "r", "t", "(", v, ")">>,
     <<"1", "%", "(", v, "-", "1", ")">>,
     <<"(", "2", "*", v, "-", "1", ")", "^", "(", "0", "-", "1", ")">>,
     <<"(", "4", "*", v, "-", "1", ")", "^", "(", "0", "-", "1", ")">>}

CoarseTolerance == Num(1, 100)
Tolerances == {DefaultTolerance, CoarseTolerance}
IterationLimits == {0, MaxIterations, DefaultMaxIterations}

\* state.memory at the call: as app.js creates it, or with a value the user
\* stored in register X before
CallMemories == {InitialMemory, [InitialMemory EXCEPT !["X"] = Int2V(5)]}

\* a solve call: every method, with and without bounds
IsSolveCall(c) ==
    \E u \in Unknowns, g \in 0..MaxNum,
       m \in {"brent", "newton", "secant", "bisection"},
       bs \in {NoBounds, <<Zero, Int2V(3)>>},
       tol \in Tolerances, mi \in IterationLimits, mem \in CallMemories :
       \E ex \in SolveExpressions(u[1]) :
          c = Call("solve", ex, u[2], Int2V(g), Zero, Zero, m, bs, tol, mi, 0, mem)

\* an integrate call: bounds in either order, equal, or not finite
IsIntegrateCall(c) ==
    \E u \in Unknowns, a \in {Int2V(k) : k \in 0..MaxNum} \cup {PInf},
       b \in {Int2V(k) : k \in 0..MaxNum},
       tol \in Tolerances, md \in 0..MaxDepth, mem \in CallMemories :
       \E ex \in IntegrateExpressions(u[1]) :
          c = Call("integrate", ex, u[2], Zero, a, b, "", NoBounds, tol, 0, md, mem)

InitSolve ==
    /\ pc = "call"
    /\ IsSolveCall(input) \/ IsIntegrateCall(input)
    /\ exprIn = input.expression
    /\ toks = <<>>
    /\ rpnOut = <<>>
    /\ outcome = Ret(Null)
    /\ angleUnit = "DEG"
    /\ memory = input.mem
    /\ originalMemory = input.mem
    /\ solver = [NoLocals EXCEPT !.a = input.a, !.b = input.b]
    /\ samples = <<>>
    /\ earlier = NoCall
    /\ state = InitialState

\* the code goes on at label with the locals s
Goto(label, s) ==
    /\ pc' = label
    /\ solver' = s
    /\ UNCHANGED <<input, exprIn, toks, rpnOut, outcome, angleUnit, memory,
                   originalMemory, samples, earlier, state>>

\* f(value) is called; the code goes on at label with its result
CallF(value, label, s) == Goto("f_bind", [s EXCEPT !.arg = value, !.ret = label])

\* solve / integrate returns or throws
Finish(o) ==
    /\ pc' = "done"
    /\ outcome' = o
    /\ UNCHANGED <<input, exprIn, toks, rpnOut, angleUnit, memory,
                   originalMemory, solver, samples, earlier, state>>

\* catch (error) { throw new Error(`Solver error: ${error.message}`) } of
\* solve, `Integration error: ${error.message}` of integrate
Caught(o) ==
    Throw((IF input.fn = "solve" THEN "Solver error: "
           ELSE "Integration error: ") \o o.msg, o.arg)

\* the call of line 100 wrapped like the statements of the try block
NegatedCallCaught(o) == Throw("Integration error: " \o o.msg, o.arg)

\* return -integrate(func, b, a, options) stands before the try block: what
\* the inner call throws leaves the outer call as it is
NegatedCallThrows(o) == o

\* an error thrown inside the try block, as it leaves solve / integrate
Rethrown(o) ==
    IF o = ModelLimit THEN o
    ELSE IF input.fn = "integrate" /\ solver.negate THEN NegatedCallThrows(Caught(o))
    ELSE Caught(o)

\* what a pass r through a method's code leads to; after a "call" the code
\* goes on as next says
Continue(r, next) ==
    CASE r.kind = "return" -> Finish(Ret(r.val))
      [] r.kind = "throw"  -> Finish(Rethrown(Throw(r.msg, "")))
      [] r.kind = "limit"  -> Finish(ModelLimit)
      [] OTHER             -> next

\* the result of the call of f that has just returned
fResult == solver.fout.val

\* ---- the closure f of solve, and of createFunctionFromExpression
\* const originalMemory = {...state.memory};
\* state.memory[variable.toUpperCase()] = value
FBind ==
    /\ pc = "f_bind"
    /\ originalMemory' = memory
    /\ memory' = Bound(memory, input.variable, solver.arg)
    /\ pc' = "f_eval"
    /\ samples' = Append(samples, solver.arg)
    /\ UNCHANGED <<input, exprIn, toks, rpnOut, outcome, angleUnit, solver, earlier, state>>

\* const result = evaluateWithState(expression), or the error it throws
FEvaluate ==
    /\ pc = "f_eval"
    /\ solver' = [solver EXCEPT !.fout = evaluateWithState(exprIn, angleUnit, memory)]
    /\ pc' = "f_restore"
    /\ UNCHANGED <<input, exprIn, toks, rpnOut, outcome, angleUnit, memory,
                   originalMemory, samples, earlier, state>>

\* FRestore without the assignment of the catch block
FRestoreOnReturnOnly ==
    /\ pc = "f_restore"
    /\ memory' = IF solver.fout.ok THEN originalMemory ELSE memory
    /\ IF solver.fout.ok
       THEN pc' = solver.ret /\ UNCHANGED outcome
       ELSE pc' = "done" /\ outcome' = Rethrown(solver.fout)
    /\ UNCHANGED <<input, exprIn, toks, rpnOut, angleUnit, originalMemory, solver, samples, earlier, state>>

\* state.memory = originalMemory, then return result / throw error; the
\* error passes to the catch block of solve or integrate
FRestore ==
    /\ pc = "f_restore"
    /\ memory' = originalMemory
    /\ IF solver.fout.ok
       THEN pc' = solver.ret /\ UNCHANGED outcome
       ELSE pc' = "done" /\ outcome' = Rethrown(solver.fout)
    /\ UNCHANGED <<input, exprIn, toks, rpnOut, angleUnit, originalMemory, solver, samples, earlier, state>>

\* ---- solve: the switch on the method
Solve ==
    /\ pc = "call"
    /\ input.fn = "solve"
    /\ LET bounds == input.bounds
           guess  == input.guess
       IN  CASE input.method = "bisection" ->
                  IF Len(bounds) # 2
                  THEN Finish(Rethrown(Throw("Bisection requires bounds [a, b]", "")))
                  ELSE CallF(bounds[1], "bisection_fa",
                             [solver EXCEPT !.a = bounds[1], !.b = bounds[2]])
             [] input.method = "newton" ->
                  Goto("newton_loop", [solver EXCEPT !.x = guess, !.iterations = 0])
             [] input.method = "secant" ->
                  Goto("secant_loop",
                       [solver EXCEPT !.x0 = guess, !.iterations = 0,
                                      !.x1 = IF Len(bounds) >= 2 THEN bounds[2]
                                             ELSE Add(guess, One)])
             [] OTHER ->
                  LET a == IF bounds # NoBounds THEN bounds[1] ELSE Sub(guess, Int2V(10))
                      b == IF bounds # NoBounds THEN bounds[2] ELSE Add(guess, Int2V(10))
                  IN  CallF(a, "solve_fa", [solver EXCEPT !.a = a, !.b = b])

\* let fa = f(a); then f(b)
SolveFa ==
    /\ pc = "solve_fa"
    /\ CallF(solver.b, "solve_fb", [solver EXCEPT !.fa = fResult])

\* let fb = f(b); if (fa * fb > 0) the windows are searched, else brent runs
SolveFb ==
    /\ pc = "solve_fb"
    /\ LET s == [solver EXCEPT !.fb = fResult]
           a1 == Sub(input.guess, Int2V(10))
       IN  IF ~Tracked({s.fa, s.fb, Mul(s.fa, s.fb)}) THEN Finish(ModelLimit)
           ELSE IF Gt(Mul(s.fa, s.fb), Zero)
           THEN CallF(a1, "window_fa",
                      [s EXCEPT !.i = 1, !.a = a1, !.b = Add(input.guess, Int2V(10))])
           ELSE CallF(s.a, "brent_fa", s)

\* in the loop over i: fa = f(a); then f(b)
WindowFa ==
    /\ pc = "window_fa"
    /\ CallF(solver.b, "window_fb", [solver EXCEPT !.fa = fResult])

\* WindowFb that goes on with the window after the next
WindowFbSkips ==
    /\ pc = "window_fb"
    /\ LET s == [solver EXCEPT !.fb = fResult]
           range == Int2V((s.i + 2) * 10)
           a1 == Sub(input.guess, range)
       IN  IF ~Tracked({s.fa, s.fb, Mul(s.fa, s.fb)}) THEN Finish(ModelLimit)
           ELSE IF Le(Mul(s.fa, s.fb), Zero) THEN CallF(s.a, "brent_fa", s)
           ELSE IF s.i < 9
           THEN CallF(a1, "window_fa",
                      [s EXCEPT !.i = s.i + 2, !.a = a1, !.b = Add(input.guess, range)])
           ELSE Goto("newton_loop", [s EXCEPT !.x = input.guess, !.iterations = 0])

\* fb = f(b); a window with fa * fb <= 0 goes to brent, the next window is
\* tried up to i = 10, then newton starts from the initial guess
WindowFb ==
    /\ pc = "window_fb"
    /\ LET s == [solver EXCEPT !.fb = fResult]
           range == Int2V((s.i + 1) * 10)
           a1 == Sub(input.guess, range)
       IN  IF ~Tracked({s.fa, s.fb, Mul(s.fa, s.fb)}) THEN Finish(ModelLimit)
           ELSE IF Le(Mul(s.fa, s.fb), Zero) THEN CallF(s.a, "brent_fa", s)
           ELSE IF s.i < 10
           THEN CallF(a1, "window_fa",
                      [s EXCEPT !.i = s.i + 1, !.a = a1, !.b = Add(input.guess, range)])
           ELSE Goto("newton_loop", [s EXCEPT !.x = input.guess, !.iterations = 0])

\* ---- brent
BrentFa ==
    /\ pc = "brent_fa"
    /\ CallF(solver.b, "brent_fb", [solver EXCEPT !.fa = fResult])

BrentFb ==
    /\ pc = "brent_fb"
    /\ LET r == brentEnter([solver EXCEPT !.fb = fResult])
       IN  Continue(r, Goto("brent_loop", r.s))

\* one pass of the for loop, up to fb = f(b)
BrentLoop ==
    /\ pc = "brent_loop"
    /\ IF solver.iterations >= input.maxIterations
       THEN Finish(Rethrown(Throw("Brent method did not converge", "")))
       ELSE LET r == brentBody(solver, input.tolerance)
            IN  Continue(r, CallF(r.val, "brent_next", r.s))

\* fb = f(b); iter++
BrentNext ==
    /\ pc = "brent_next"
    /\ Goto("brent_loop", [solver EXCEPT !.fb = fResult, !.iterations = @ + 1])

\* ---- newton
\* NewtonLoop as "while (true)"
NewtonLoopUnbounded ==
    /\ pc = "newton_loop"
    /\ CallF(solver.x, "newton_fx", solver)

NewtonLoop ==
    /\ pc = "newton_loop"
    /\ IF solver.iterations >= input.maxIterations
       THEN Finish(Rethrown(Throw("Newton method did not converge", "")))
       ELSE CallF(solver.x, "newton_fx", solver)

NewtonFx ==
    /\ pc = "newton_fx"
    /\ LET r == newtonResidual([solver EXCEPT !.fx = fResult], input.tolerance)
       IN  Continue(r, CallF(r.val, "newton_fph", r.s))

\* df(x): f(x + h) is there, f(x - h) is called
NewtonFph ==
    /\ pc = "newton_fph"
    /\ CallF(Sub(solver.x, DefaultH), "newton_fmh", [solver EXCEPT !.fph = fResult])

NewtonFmh ==
    /\ pc = "newton_fmh"
    /\ LET r == newtonStep(solver, fResult, input.tolerance)
       IN  Continue(r, Goto("newton_loop", r.s))

\* ---- secant
SecantLoop ==
    /\ pc = "secant_loop"
    /\ IF solver.iterations >= input.maxIterations
       THEN Finish(Rethrown(Throw("Secant method did not converge", "")))
       ELSE CallF(solver.x0, "secant_fx0", solver)

SecantFx0 ==
    /\ pc = "secant_fx0"
    /\ CallF(solver.x1, "secant_fx1", [solver EXCEPT !.fx0 = fResult])

SecantFx1 ==
    /\ pc = "secant_fx1"
    /\ LET r == secantStep(solver, fResult, input.tolerance)
       IN  Continue(r, Goto("secant_loop", r.s))

\* ---- bisection
BisectionFa ==
    /\ pc = "bisection_fa"
    /\ CallF(solver.b, "bisection_fb", [solver EXCEPT !.fa = fResult])

BisectionFb ==
    /\ pc = "bisection_fb"
    /\ LET r == bisectionEnter([solver EXCEPT !.fb = fResult], input.tolerance)
       IN  Continue(r, Goto("bisection_loop", r.s))

\* while (iterations < maxIterations): c = (a + b) / 2, fc = f(c); after the
\* loop the midpoint is returned
BisectionLoop ==
    /\ pc = "bisection_loop"
    /\ LET c == Div(Add(solver.a, solver.b), Two)
       IN  IF solver.iterations < input.maxIterations
           THEN CallF(c, "bisection_fc", [solver EXCEPT !.c = c])
           ELSE Finish(Ret(c))

BisectionFc ==
    /\ pc = "bisection_fc"
    /\ LET r == bisectionStep([solver EXCEPT !.fc = fResult], input.tolerance)
       IN  Continue(r, Goto("bisection_loop", r.s))

\* ---- integrate
\* Integrate with line 100 returning what integrate(func, b, a, options) returns
IntegrateNotNegated ==
    /\ pc = "call"
    /\ input.fn = "integrate"
    /\ LET a == solver.a
           b == solver.b
       IN  IF ~isFinite(a) \/ ~isFinite(b)
           THEN Finish(Throw("Integration bounds must be finite", ""))
           ELSE IF StrictEq(a, b) THEN Finish(Ret(Zero))
           ELSE IF Gt(a, b) THEN Goto("call", [solver EXCEPT !.a = b, !.b = a])
           ELSE CallF(a, "integrate_fa", solver)

\* the checks of the bounds; a > b runs integrate(func, b, a, options) and
\* negates what it returns; then the try block starts with fa = f(a)
Integrate ==
    /\ pc = "call"
    /\ input.fn = "integrate"
    /\ LET a == solver.a
           b == solver.b
       IN  IF ~isFinite(a) \/ ~isFinite(b)
           THEN Finish(Throw("Integration bounds must be finite", ""))
           ELSE IF StrictEq(a, b)
           THEN Finish(Ret(IF solver.negate THEN Neg(Zero) ELSE Zero))
           ELSE IF Gt(a, b)
           THEN Goto("call", [solver EXCEPT !.a = b, !.b = a, !.negate = TRUE])
           ELSE CallF(a, "integrate_fa", solver)

IntegrateFa ==
    /\ pc = "integrate_fa"
    /\ CallF(solver.b, "integrate_fb", [solver EXCEPT !.fa = fResult])

IntegrateFb ==
    /\ pc = "integrate_fb"
    /\ CallF(Div(Add(solver.a, solver.b), Two), "integrate_fc",
             [solver EXCEPT !.fb = fResult])

\* fc = f((a + b) / 2); the check for singularities, the estimate S, and
\* the call adaptiveSimpson(f, a, b, tolerance, S, fa, fb, fc, maxDepth)
IntegrateFc ==
    /\ pc = "integrate_fc"
    /\ LET s == [solver EXCEPT !.fc = fResult]
           S == simpsonEstimate(s.a, s.b, s.fa, s.fb, s.fc)
       IN  IF ~isFinite(s.fa) \/ ~isFinite(s.fb) \/ ~isFinite(s.fc)
           THEN Finish(Rethrown(Throw("Function has singularity at or near bounds", "")))
           ELSE Goto("adaptive",
                     [s EXCEPT !.frames = <<Frame(s.a, s.b, input.tolerance, S,
                                                  s.fa, s.fb, s.fc, input.maxDepth)>>])

\* adaptiveSimpson: c, h, d, e; fd = f(d) is called
AdaptiveSimpson ==
    /\ pc = "adaptive"
    /\ LET fr == Top(solver.frames)
           c  == Div(Add(fr.a, fr.b), Two)
           d  == Div(Add(fr.a, c), Two)
       IN  CallF(d, "adaptive_fd", solver)

\* fd = f(d); fe = f(e) is called
AdaptiveFd ==
    /\ pc = "adaptive_fd"
    /\ LET n  == Len(solver.frames)
           fr == Top(solver.frames)
           c  == Div(Add(fr.a, fr.b), Two)
           e  == Div(Add(c, fr.b), Two)
       IN  CallF(e, "adaptive_fe", [solver EXCEPT !.frames[n].fd = fResult])

\* fe = f(e); the call returns its refined estimate, throws, or calls
\* adaptiveSimpson on the left half
AdaptiveFe ==
    /\ pc = "adaptive_fe"
    /\ LET n  == Len(solver.frames)
           fr == [Top(solver.frames) EXCEPT !.fe = fResult]
           r  == adaptiveStep(fr)
       IN  CASE r.kind = "return" ->
                  Goto("adaptive_return",
                       [solver EXCEPT !.frames = Pop(solver.frames), !.result = r.val])
             [] r.kind = "throw" -> Finish(Rethrown(Throw(r.msg, "")))
             [] r.kind = "limit" -> Finish(ModelLimit)
             [] OTHER ->
                  Goto("adaptive",
                       [solver EXCEPT !.frames = Append(Append(Pop(solver.frames), r.s),
                                                        leftHalf(r.s))])

\* a call of adaptiveSimpson has returned solver.result: to integrate, which
\* returns it, or to the call that made it, which calls the right half or
\* returns the sum of its two halves
AdaptiveReturn ==
    /\ pc = "adaptive_return"
    /\ LET n  == Len(solver.frames)
           fr == Top(solver.frames)
       IN  IF n = 0
           THEN Finish(Ret(IF solver.negate THEN Neg(solver.result) ELSE solver.result))
           ELSE IF fr.stage = "left"
           THEN Goto("adaptive",
                     [solver EXCEPT !.frames =
                         Append(Append(Pop(solver.frames),
                                       [fr EXCEPT !.left = solver.result,
                                                  !.stage = "right"]),
                                rightHalf(fr))])
           ELSE Goto("adaptive_return",
                     [solver EXCEPT !.frames = Pop(solver.frames),
                                    !.result = Add(fr.left, solver.result)])

NextSolve ==
    \/ Solve \/ FBind \/ FEvaluate \/ FRestore
    \/ SolveFa \/ SolveFb \/ WindowFa \/ WindowFb
    \/ BrentFa \/ BrentFb \/ BrentLoop \/ BrentNext
    \/ NewtonLoop \/ NewtonFx \/ NewtonFph \/ NewtonFmh
    \/ SecantLoop \/ SecantFx0 \/ SecantFx1
    \/ BisectionFa \/ BisectionFb \/ BisectionLoop \/ BisectionFc
    \/ Integrate \/ IntegrateFa \/ IntegrateFb \/ IntegrateFc
    \/ AdaptiveSimpson \/ AdaptiveFd \/ AdaptiveFe \/ AdaptiveReturn

SpecSolve == InitSolve /\ [][NextSolve]_vars

\* ---- integrate called twice: after integrate(func, a, b, options) has
\* ended, integrate(func, b, a, options) is called with the same state, and
\* how the first call ended is kept
CallSwapped ==
    /\ pc = "done"
    /\ ~earlier.made
    /\ earlier' = [made |-> TRUE, outcome |-> outcome, samples |-> samples]
    /\ input' = [input EXCEPT !.a = input.b, !.b = input.a]
    /\ solver' = [NoLocals EXCEPT !.a = input.b, !.b = input.a]
    /\ samples' = <<>>
    /\ outcome' = Ret(Null)
    /\ pc' = "call"
    /\ UNCHANGED <<exprIn, toks, rpnOut, angleUnit, memory, originalMemory, state>>

InitSwap == InitSolve /\ input.fn = "integrate"

NextSwap ==
    \/ Integrate \/ IntegrateFa \/ IntegrateFb \/ IntegrateFc
    \/ AdaptiveSimpson \/ AdaptiveFd \/ AdaptiveFe \/ AdaptiveReturn
    \/ FBind \/ FEvaluate \/ FRestore
    \/ CallSwapped

SpecSwap == InitSwap /\ [][NextSwap]_vars

\* ------------------------------- keymap.js, inputController.js: the keypad
\* a key of KEYMAP; labels are character sequences, <<>> for null
Key(id, primary, shift, alpha, action, type) ==
    [id |-> id, primary |-> primary, shift |-> shift, alpha |-> alpha,
     action |-> action, type |-> type]
NoLabel == <<>>
\* the keys pressed here: SHIFT, ALPHA, 1, 2, +, Ans, =, DEL, AC
KEYMAP ==
    {Key("shift", <<"S", "H", "I", "F", "T">>, NoLabel, NoLabel, "toggle_shift", "control"),
     Key("alpha", <<"A", "L", "P", "H", "A">>, NoLabel, NoLabel, "toggle_alpha", "control"),
     Key("num1", <<"1">>, <<"S", "T", "A", "T">>, NoLabel, "input_1", "input"),
     Key("num2", <<"2">>, <<"C", "M", "P", "L", "X">>, NoLabel, "input_2", "input"),
     Key("plus", <<"+">>, <<"P", "o", "l">>, NoLabel, "plus", "operator"),
     Key("ans", <<"A", "n", "s">>, <<"D", "R", "G">>, <<"e">>, "ans", "function"),
     Key("equals", <<"=">>, <<"%">>, NoLabel, "equals", "control"),
     Key("del", <<"D", "E", "L">>, <<"I", "N", "S">>, NoLabel, "delete", "control"),
     Key("ac", <<"A", "C">>, <<"O", "F", "F">>, NoLabel, "clear", "control")}

getActiveLabel(key) ==
    IF state.shift /\ key.shift # NoLabel THEN key.shift
    ELSE IF state.alpha /\ key.alpha # NoLabel THEN key.alpha
    ELSE key.primary

\* cursorManager.insertAt(text, currentBuffer), then
\* state.cursorPosition = cursorManager.getPosition()
substring(str, from, to) ==
    LET lo == IF from < to THEN from ELSE to
        hi == IF from < to THEN to ELSE from
        clamp(i) == IF i < 0 THEN 0 ELSE IF i > Len(str) THEN Len(str) ELSE i
    IN  SubSeq(str, clamp(lo) + 1, clamp(hi))
insertAt(text, st) ==
    [st EXCEPT !.inputBuffer = substring(st.inputBuffer, 0, st.position) \o text
                               \o substring(st.inputBuffer, st.position,
                                            Len(st.inputBuffer)),
               !.position = st.position + Len(text),
               !.cursorPosition = st.position + Len(text)]

\* ---- HistoryManager (domRenderer.js); an entry is {expression, result}
maxHistory == 50
\* add(expression, result): push, drop the oldest entry over maxHistory, and
\* leave browsing
historyAddUnlimited(st, expression, result) ==
    [st EXCEPT !.history = Append(st.history,
                                  [expression |-> expression, result |-> result]),
               !.currentIndex = -1, !.tempBuffer = <<>>]
historyAdd(st, expression, result) ==
    LET pushed == Append(st.history, [expression |-> expression, result |-> result])
    IN  [st EXCEPT !.history = IF Len(pushed) > maxHistory THEN Tail(pushed)
                               ELSE pushed,
                   !.currentIndex = -1, !.tempBuffer = <<>>]
\* backward(currentInput): the fields after the call; it returns an entry
\* when backwardReturns holds, and then history[currentIndex]
backwardReturns(st) ==
    Len(st.history) # 0 /\ (st.currentIndex = -1 \/ st.currentIndex > 0)
historyBackward(st, currentInput) ==
    IF Len(st.history) = 0 THEN st
    ELSE IF st.currentIndex = -1
    THEN [st EXCEPT !.tempBuffer = currentInput, !.currentIndex = Len(st.history) - 1]
    ELSE IF st.currentIndex > 0 THEN [st EXCEPT !.currentIndex = @ - 1]
    ELSE st
\* forward(): the fields after the call; it returns an entry when
\* forwardReturns holds: history[currentIndex], or the saved input
forwardReturns(st) == st.currentIndex # -1
historyForward(st) ==
    IF st.currentIndex = -1 THEN st
    ELSE IF st.currentIndex + 1 >= Len(st.history) THEN [st EXCEPT !.currentIndex = -1]
    ELSE [st EXCEPT !.currentIndex = @ + 1]
\* the expression of the entry forward() has returned, st being the fields
\* after the call
forwardExpression(st) ==
    IF st.currentIndex = -1 THEN st.tempBuffer
    ELSE st.history[st.currentIndex + 1].expression
exitBrowsing(st) == [st EXCEPT !.currentIndex = -1, !.tempBuffer = <<>>]
historyClear(st) == [st EXCEPT !.history = <<>>, !.currentIndex = -1, !.tempBuffer = <<>>]
\* if (historyManager.isBrowsing()) historyManager.exitBrowsing()
stopBrowsing(st) == IF st.currentIndex # -1 THEN exitBrowsing(st) ELSE st

\* modeManager.toggleAngleUnit
toggleAngleUnit(unit) ==
    CASE unit = "DEG" -> "RAD" [] unit = "RAD" -> "GRAD" [] OTHER -> "DEG"

\* a key handler leaves the evaluator's and the solver's variables alone
KeysUnchanged ==
    UNCHANGED <<pc, input, toks, rpnOut, memory, originalMemory, solver, samples,
                earlier>>
\* error.message of a thrown error
errorMessage(o) == IF o.arg = "" THEN o.msg ELSE o.msg \o ": " \o o.arg

\* one key more was pressed
Pressed(st) == [st EXCEPT !.presses = @ + 1]

\* SHIFT and ALPHA toggled each without a look at the other
ToggleModifierKeepsOther(key) ==
    /\ key.action \in {"toggle_shift", "toggle_alpha"}
    /\ state' = Pressed(IF key.action = "toggle_shift"
                        THEN [state EXCEPT !.shift = ~state.shift]
                        ELSE [state EXCEPT !.alpha = ~state.alpha])
    /\ UNCHANGED <<exprIn, outcome, angleUnit>>
    /\ KeysUnchanged

\* handleControlKey: SHIFT, ALPHA
ToggleModifier(key) ==
    /\ key.action \in {"toggle_shift", "toggle_alpha"}
    /\ state' = Pressed(
                  IF key.action = "toggle_shift"
                  THEN [state EXCEPT !.shift = ~state.shift,
                                     !.alpha = IF ~state.shift THEN FALSE ELSE state.alpha]
                  ELSE [state EXCEPT !.alpha = ~state.alpha,
                                     !.shift = IF ~state.alpha THEN FALSE ELSE state.shift])
    /\ UNCHANGED <<exprIn, outcome, angleUnit>>
    /\ KeysUnchanged

\* handleEquals: nothing on an empty buffer; the result goes to lastAns and
\* on the stack and the buffer is cleared; an error goes to setError, which
\* starts a timer of 2 seconds
handleEquals(key) ==
    /\ key.action = "equals"
    /\ IF state.inputBuffer = <<>>
       THEN state' = Pressed(state) /\ UNCHANGED <<exprIn, outcome>>
       ELSE LET r == evaluateWithState(state.inputBuffer, angleUnit, memory)
            IN  /\ exprIn' = state.inputBuffer
                /\ outcome' = r
                /\ IF r.ok
                   THEN state' = Pressed([historyAdd(state, state.inputBuffer, outcome'.val) EXCEPT
                               !.lastAns = r.val,
                               !.stack = Append(@, [expression |-> state.inputBuffer,
                                                    result |-> r.val]),
                               !.inputBuffer = <<>>,
                               !.cursorPosition = 0,
                               !.position = 0])
                   ELSE state' = Pressed([state EXCEPT !.error = errorMessage(r),
                                                       !.timers = @ + 1])
    /\ UNCHANGED angleUnit
    /\ KeysUnchanged

\* the callback of setError's timer
ErrorTimeout ==
    /\ pc = "keys"
    /\ state.timers > 0
    /\ state' = [state EXCEPT !.error = "", !.timers = @ - 1]
    /\ UNCHANGED <<exprIn, outcome, angleUnit>>
    /\ KeysUnchanged

\* handleInputKey for the number keys 1 and 2: with SHIFT the mode is
\* switched, else the digit is inserted at the cursor
handleInputKey(key) ==
    /\ key.type = "input"
    /\ IF state.shift
       THEN state' = Pressed([stopBrowsing(state) EXCEPT !.mode = key.shift,
                                                         !.shift = FALSE])
       ELSE state' = Pressed([insertAt(getActiveLabel(key), stopBrowsing(state))
                                EXCEPT !.shift = FALSE, !.alpha = FALSE])
    /\ UNCHANGED <<exprIn, outcome, angleUnit>>
    /\ KeysUnchanged

\* handleOperatorKey: SHIFT + plus inserts 'Pol(', else the active label
handleOperatorKey(key) ==
    /\ key.type = "operator"
    /\ LET textToInsert == IF state.shift /\ key.id = "plus"
                           THEN <<"P", "o", "l", "(">>
                           ELSE getActiveLabel(key)
       IN  state' = Pressed([insertAt(textToInsert, stopBrowsing(state))
                               EXCEPT !.shift = FALSE, !.alpha = FALSE])
    /\ UNCHANGED <<exprIn, outcome, angleUnit>>
    /\ KeysUnchanged

\* handleFunctionKey for Ans: SHIFT toggles the angle unit, ALPHA inserts
\* 'e', else 'Ans' is inserted
handleFunctionKey(key) ==
    /\ key.action = "ans"
    /\ IF state.shift
       THEN /\ angleUnit' = toggleAngleUnit(angleUnit)
            /\ state' = Pressed([stopBrowsing(state) EXCEPT !.shift = FALSE,
                                                            !.alpha = FALSE])
       ELSE LET textToInsert == IF state.alpha THEN <<"e">> ELSE <<"A", "n", "s">>
            IN  /\ state' = Pressed([insertAt(textToInsert, stopBrowsing(state))
                                        EXCEPT !.shift = FALSE, !.alpha = FALSE])
                /\ UNCHANGED angleUnit
    /\ UNCHANGED <<exprIn, outcome>>
    /\ KeysUnchanged

\* clearAll of app.js
clearAll(st) ==
    [st EXCEPT !.inputBuffer = <<>>, !.error = "", !.shift = FALSE, !.alpha = FALSE]
\* deleteLastChar of app.js
deleteLastChar(st) ==
    IF Len(st.inputBuffer) > 0
    THEN [st EXCEPT !.inputBuffer = SubSeq(@, 1, Len(@) - 1)]
    ELSE st

\* handleControlKey: AC clears all (SHIFT + AC is OFF, which clears all too)
handleClear(key) ==
    /\ key.action = "clear"
    /\ state' = Pressed(clearAll(state))
    /\ UNCHANGED <<exprIn, outcome, angleUnit>>
    /\ KeysUnchanged

\* handleControlKey: DEL deletes the last character; SHIFT + DEL does nothing
handleDelete(key) ==
    /\ key.action = "delete"
    /\ state' = Pressed(IF state.shift THEN state ELSE deleteLastChar(state))
    /\ UNCHANGED <<exprIn, outcome, angleUnit>>
    /\ KeysUnchanged

\* the buffer and the cursor after a history entry's expression was recalled
recalled(st, expression) ==
    [st EXCEPT !.inputBuffer = expression, !.cursorPosition = Len(expression),
               !.position = Len(expression)]
\* handleArrowKey(direction), called for the arrow keys of the keyboard
handleArrowKey ==
    /\ pc = "keys"
    /\ state.presses < MaxKeys
    /\ \E direction \in {"left", "right", "up", "down"} :
          state' = Pressed(
             CASE direction = "left" ->
                    IF state.position > 0
                    THEN [state EXCEPT !.position = @ - 1,
                                       !.cursorPosition = state.position - 1]
                    ELSE state
               [] direction = "right" ->
                    IF state.position < Len(state.inputBuffer)
                    THEN [state EXCEPT !.position = @ + 1,
                                       !.cursorPosition = state.position + 1]
                    ELSE state
               [] direction = "up" ->
                    LET st == historyBackward(state, state.inputBuffer)
                    IN  IF backwardReturns(state)
                        THEN recalled(st, st.history[st.currentIndex + 1].expression)
                        ELSE st
               [] OTHER ->
                    LET st == historyForward(state)
                    IN  IF forwardReturns(state)
                        THEN recalled(st, forwardExpression(st))
                        ELSE st)
    /\ UNCHANGED <<exprIn, outcome, angleUnit>>
    /\ KeysUnchanged

\* handleKeyPress(keyId): the handler of the key's type
handleKeyPress ==
    /\ pc = "keys"
    /\ state.presses < MaxKeys
    /\ \E key \in KEYMAP :
          \/ ToggleModifier(key)
          \/ handleClear(key)
          \/ handleDelete(key)
          \/ handleEquals(key)
          \/ handleInputKey(key)
          \/ handleOperatorKey(key)
          \/ handleFunctionKey(key)

\* the calculator after initCalculator, waiting for keys
InitKeys ==
    /\ pc = "keys"
    /\ input = Call("keys", <<>>, "", Zero, Zero, Zero, "", NoBounds, Zero, 0, 0,
                    InitialMemory)
    /\ exprIn = <<>>
    /\ toks = <<>>
    /\ rpnOut = <<>>
    /\ outcome = Ret(Null)
    /\ angleUnit = "DEG"
    /\ memory = InitialMemory
    /\ originalMemory = InitialMemory
    /\ solver = NoLocals
    /\ samples = <<>>
    /\ earlier = NoCall
    /\ state = InitialState

NextKeys == handleKeyPress \/ handleArrowKey \/ ErrorTimeout

SpecKeys == InitKeys /\ [][NextKeys]_vars

\* ---- the history manager alone, its five operations called in any order
InitHistory ==
    /\ pc = "history"
    /\ input = Call("history", <<>>, "", Zero, Zero, Zero, "", NoBounds, Zero, 0, 0,
                    InitialMemory)
    /\ exprIn = <<>>
    /\ toks = <<>>
    /\ rpnOut = <<>>
    /\ outcome = Ret(Null)
    /\ angleUnit = "DEG"
    /\ memory = InitialMemory
    /\ originalMemory = InitialMemory
    /\ solver = NoLocals
    /\ samples = <<>>
    /\ earlier = NoCall
    /\ state = InitialState

\* the result of the next entry: 0, 1, 2 in turn, so that entries next to
\* each other differ and a dropped entry shows
nextResult(history) ==
    IF history = <<>> THEN Zero
    ELSE Int2V((history[Len(history)].result.n + 1) % 3)

HistoryUnchanged == UNCHANGED <<pc, input, exprIn, toks, rpnOut, outcome, angleUnit, memory, originalMemory, solver, samples, earlier>>

HistoryAdd ==
    /\ pc = "history"
    /\ state' = historyAdd(state, <<"1">>, nextResult(state.history))
    /\ HistoryUnchanged

HistoryBackward ==
    /\ pc = "history"
    /\ \E currentInput \in {<<>>, <<"2">>} :
          state' = historyBackward(state, currentInput)
    /\ HistoryUnchanged

HistoryForward ==
    /\ pc = "history"
    /\ state' = historyForward(state)
    /\ HistoryUnchanged

HistoryExitBrowsing ==
    /\ pc = "history"
    /\ state' = exitBrowsing(state)
    /\ HistoryUnchanged

HistoryClear ==
    /\ pc = "history"
    /\ state' = historyClear(state)
    /\ HistoryUnchanged

NextHistory ==
    \/ HistoryAdd
    \/ HistoryBackward
    \/ HistoryForward
    \/ HistoryExitBrowsing
    \/ HistoryClear

SpecHistory == InitHistory /\ [][NextHistory]_vars

\* ------------------------------------------------ the documented meaning
\* The value the documentation gives an expression, computed on the case and
\* not on its string: the meaning of each operator symbol, of the functions
\* with a restricted domain and of '!', combined by the documented grammar.
OpMeaning(o, x, y) ==
    CASE o = "+"               -> Ret(Add(x, y))
      [] o \in {"-", "MINUS"}  -> Ret(Sub(x, y))
      [] o \in {"*", "TIMES"}  -> Ret(Mul(x, y))
      [] o \in {"/", "DIVIDE"} -> IF StrictEq(y, Zero) THEN Throw("Division by zero", "")
                                  ELSE Ret(Div(x, y))
      [] o = "^"               -> Ret(Pow(x, y))
      [] o = "%"               -> Ret(Mod(x, y))
Bin(o, X, Y) == IF ~X.ok THEN X ELSE IF ~Y.ok THEN Y ELSE OpMeaning(o, X.val, Y.val)
V(n) == Ret(Int2V(n))

FuncMeaning(f, X) ==
    IF ~X.ok THEN X
    ELSE CASE f = <<"s", "q", "r", "t">> ->
                IF Lt(X.val, Zero) THEN Throw("Invalid domain for sqrt", "")
                ELSE Ret(Sqrt(X.val))
           [] f = <<"l", "o", "g">> ->
                IF Le(X.val, Zero) THEN Throw("Invalid domain for log", "")
                ELSE Ret(Log10(X.val))
           [] f = <<"l", "n">> ->
                IF Le(X.val, Zero) THEN Throw("Invalid domain for ln", "")
                ELSE Ret(Ln(X.val))

RECURSIVE NFactorial(_)
NFactorial(n) == IF n = 0 THEN One ELSE Mul(Int2V(n), NFactorial(n - 1))
FactMeaning(X) ==
    IF ~X.ok THEN X
    ELSE IF ~isInteger(X.val) \/ X.val.n < 0
    THEN Throw("Factorial requires non-negative integer", "")
    ELSE IF X.val.n > 170 THEN Ret(PInf)
    ELSE Ret(NFactorial(X.val.n))

Prec(o) == IF o \in {"+", "-", "MINUS"} THEN 1 ELSE IF o = "^" THEN 3 ELSE 2
\* in "a o1 b o2 c" the operator o2 takes b first
BindsRight(o1, o2) == Prec(o2) > Prec(o1) \/ (o1 = "^" /\ o2 = "^")

LeftGrouped(in)  == Bin(in.o2, Bin(in.o1, V(in.a), V(in.b)), V(in.c))
RightGrouped(in) == Bin(in.o1, V(in.a), Bin(in.o2, V(in.b), V(in.c)))

\* the shapes whose meaning is given below
HasMeaning(in) ==
    /\ in.shape \in {"flat", "left", "right", "neg2", "negp", "neg1", "func",
                     "funcIn", "funcNeg", "fact", "factIn"}
    /\ in.shape \in {"func", "funcIn", "funcNeg"} => in.f \in DomainFuncs
    /\ in.shape = "neg1" => in.o1 \in {"+", "-", "MINUS"}

Meaning(in) ==
    CASE in.shape = "flat"    -> IF BindsRight(in.o1, in.o2) THEN RightGrouped(in)
                                 ELSE LeftGrouped(in)
      [] in.shape = "left"    -> LeftGrouped(in)
      [] in.shape = "right"   -> RightGrouped(in)
      [] in.shape \in {"neg2", "negp"} ->
                                 Bin(in.o1, V(in.a), Ret(Neg(Int2V(in.b))))
      [] in.shape = "neg1"    -> Bin(in.o1, Ret(Neg(Int2V(in.a))), V(in.b))
      [] in.shape = "func"    -> FuncMeaning(in.f, Bin(in.o1, V(in.a), V(in.b)))
      [] in.shape = "funcIn"  -> Bin(in.o2, V(in.c),
                                     FuncMeaning(in.f, Bin(in.o1, V(in.a), V(in.b))))
      [] in.shape = "funcNeg" -> FuncMeaning(in.f, Ret(Neg(Int2V(in.a))))
      [] in.shape = "fact"    -> FactMeaning(V(in.a))
      [] in.shape = "factIn"  -> FactMeaning(Bin(in.o1, V(in.a), V(in.b)))

Done == pc = "done"
Arith4 == {"+", "-", "*", "/"}

\* ------------------------------------------------------------------ claims
\* C1: with the operators + - * /, evaluateExpression gives "a o1 b o2 c" the
\* value a o1 (b o2 c) when o2 is * or / and o1 is + or -, the value
\* (a o1 b) o2 c when o1 is * or / and o2 is + or -, and gives a
\* parenthesised group the value of a single operand: "(a o1 b) o2 c" is
\* (a o1 b) o2 c and "a o1 (b o2 c)" is a o1 (b o2 c).
C1_Precedence ==
    (Done /\ input.o1 \in Arith4 /\ input.o2 \in Arith4) =>
        /\ (input.shape = "flat" /\ Prec(input.o1) < Prec(input.o2))
              => outcome = RightGrouped(input)
        /\ (input.shape = "flat" /\ Prec(input.o1) > Prec(input.o2))
              => outcome = LeftGrouped(input)
        /\ input.shape = "left"  => outcome = LeftGrouped(input)
        /\ input.shape = "right" => outcome = RightGrouped(input)

\* C1 witness: "2+3*4" has been evaluated to 14
C1_Witness ==
    /\ Done
    /\ input = Case("flat", 2, 3, 4, "+", "*", NoF, "M")
    /\ outcome = Ret(Int2V(14))

\* C2: a minus sign after a binary operator or after "(" negates the operand
\* that follows: "a op -b" and "a op (-b)" evaluate to a op (-b) for op in
\* + - * / ^, and "-a+b" evaluates to b - a.
C2_UnaryMinus ==
    (Done /\ input.o2 = "-") =>
        /\ (input.shape \in {"neg2", "negp"} /\ input.o1 \in AsciiOps)
              => outcome = Meaning(input)
        /\ (input.shape = "neg1" /\ input.o1 = "+")
              => outcome = Ret(Sub(Int2V(input.b), Int2V(input.a)))

\* C3: "a^b^c" evaluates to a^(b^c), and a chain of two operators of equal
\* precedence other than ^ (a-b-c, a/b/c, a-b+c, a/b*c, ...) evaluates from
\* the left, as (a o1 b) o2 c.
C3_Associativity ==
    (Done /\ input.shape = "flat"
          /\ input.o1 \in AsciiOps \cup {"%"} /\ input.o2 \in AsciiOps \cup {"%"}
          /\ Prec(input.o1) = Prec(input.o2)) =>
        IF input.o1 = "^" THEN outcome = RightGrouped(input)
        ELSE outcome = LeftGrouped(input)

\* C3 witness: "2^3^2" has been evaluated to 512
C3_Witness ==
    /\ Done
    /\ input = Case("flat", 2, 3, 2, "^", "^", NoF, "M")
    /\ outcome = Ret(Int2V(512))

\* the errors of the documented domain checks
DomainMsgs == {"Division by zero", "Invalid domain for sqrt",
               "Invalid domain for log", "Invalid domain for ln"}
\* the case holds a zero divisor, a sqrt of a negative number or a log / ln
\* of a number <= 0
DomainErrorCase(in) ==
    /\ HasMeaning(in)
    /\ ~Meaning(in).ok
    /\ Meaning(in).msg \in DomainMsgs

\* C6: an expression in which a divisor is exactly 0, the argument of sqrt is
\* negative or the argument of log / ln is <= 0 throws 'Division by zero' or
\* 'Invalid domain ...' and returns no value.
C6_DomainErrors ==
    (Done /\ DomainErrorCase(input)) => outcome = Meaning(input)

\* C8: the operators U+00D7, U+00F7 and U+2212 evaluate like * / and -:
\* "a+bxc", "(a+b)xc" and every "a o1 b o2 c" or "(a o1 b) o2 c" with a
\* typographic operator has the value of its ASCII counterpart.
C8_TypographicOperators ==
    (Done /\ input.shape \in {"flat", "left"}
          /\ input.o1 \in Arith4 \cup TypoOps /\ input.o2 \in Arith4 \cup TypoOps
          /\ (input.o1 \in TypoOps \/ input.o2 \in TypoOps))
        => outcome = Meaning(input)

\* C9: "n!" evaluates to n! for a non-negative integer n (to +Infinity for
\* n > 170), and '!' applied to a negative or non-integer operand throws a
\* domain error.
C9_Factorial ==
    (Done /\ input.shape \in {"fact", "factIn"}) => outcome = Meaning(input)

\* C10: a single letter that names a memory register (M, A to F, X, Y)
\* evaluates to the value bound to it, and throws 'Undefined variable' when
\* the register is null.
C10_RegisterLookup ==
    (Done /\ input.shape = "var" /\ input.v \in Registers) =>
        IF memory[input.v] # Null
        THEN outcome = Ret(memory[input.v])
        ELSE outcome = Throw("Undefined variable", input.v)

\* the nesting depth after tokens[i..], from depth d; -1 once a right
\* parenthesis comes with no left parenthesis open
RECURSIVE DepthAfter(_, _, _)
DepthAfter(tokens, i, d) ==
    IF i > Len(tokens) THEN d
    ELSE IF tokens[i].type = "LPAREN" THEN DepthAfter(tokens, i + 1, d + 1)
    ELSE IF tokens[i].type = "RPAREN"
    THEN IF d = 0 THEN -1 ELSE DepthAfter(tokens, i + 1, d - 1)
    ELSE DepthAfter(tokens, i + 1, d)

\* every ')' has an unmatched '(' before it and every '(' is closed
Balanced(tokens) == DepthAfter(tokens, 1, 0) = 0

\* C7: once parseToRPN has run on a token sequence, it has thrown
\* 'Mismatched parentheses' exactly when the parentheses of the sequence are
\* not balanced (a ')' with no '(' open, or a '(' never closed).
C7_MismatchedParentheses ==
    pc # "tokenized" =>
        ((~outcome.ok /\ outcome.msg = "Mismatched parentheses") <=> ~Balanced(toks))

\* C7 witness: parseToRPN has thrown on a sequence whose '(' is never closed
\* although a ')' closed an earlier one
C7_Witness ==
    /\ pc = "done"
    /\ outcome.msg = "Mismatched parentheses"
    /\ \E i \in 1..Len(toks) : toks[i].type = "RPAREN"
    /\ DepthAfter(toks, 1, 0) > 0

\* the call solve('x*x-4', 'x', 2) of the test suite and of the README with
\* all options at their defaults, the unknown written in either case
IsSquareExample(c) ==
    /\ c.fn = "solve"
    /\ c.method = "brent" /\ c.bounds = NoBounds
    /\ c.tolerance = DefaultTolerance /\ c.maxIterations = DefaultMaxIterations
    /\ c.guess = Two
    /\ \E v \in {"x", "X"} :
          /\ c.expression = <<v, "*", v, "-", "4">>
          /\ toUpperCase(c.variable) = toUpperCase(v)

\* C4: solve('x*x-4', 'x', 2) with the default method, the unknown written
\* as x or as X, returns a number within 1e-6 of the root 2.
C4_SolveExample ==
    (pc = "done" /\ IsSquareExample(input)) =>
        /\ outcome.ok
        /\ Lt(Abs(Sub(outcome.val, Two)), Num(1, 1000000))

\* C5: during a call of solve or integrate, calculatorState.memory has the
\* keys and values it had before the call whenever no evaluation of the
\* expression is in progress: before each evaluation starts, after each has
\* returned or thrown, and when the call has returned or thrown.
C5_BindingIsolation ==
    pc \notin {"f_eval", "f_restore"} => memory = input.mem

\* C5 witness: a solve call with 5 stored in X has thrown the evaluator's
\* error of a later trial value (brent was running), and X is 5 again
C5_Witness ==
    /\ pc = "done"
    /\ input.fn = "solve"
    /\ outcome = Throw("Solver error: Division by zero", "")
    /\ solver.ret = "brent_next"
    /\ solver.arg # Int2V(5)
    /\ input.mem["X"] = Int2V(5)
    /\ memory["X"] = Int2V(5)

\* the last call of f ended with an error of the evaluator
EvaluatorThrew == ~solver.fout.ok /\ solver.fout # ModelLimit
OnePrefix(fn) == IF fn = "solve" THEN "Solver error: " ELSE "Integration error: "

\* C11: an error m that the evaluator throws inside f during a solve or
\* integrate call ends the call (no further step of the method runs on it), and
\* the call throws exactly 'Solver error: m' / 'Integration error: m', with one
\* prefix also when integrate was called with a > b; it returns no number.
C11_ErrorsWrappedOnce ==
    EvaluatorThrew =>
        /\ pc \in {"f_restore", "done"}
        /\ pc = "done" =>
              outcome = Throw(OnePrefix(input.fn) \o solver.fout.msg, solver.fout.arg)

\* C11 witness: integrate called with a > b has thrown the evaluator's
\* 'Division by zero' with one prefix
C11_Witness ==
    /\ pc = "done" /\ input.fn = "integrate" /\ solver.negate
    /\ solver.fout = Throw("Division by zero", "")
    /\ outcome = Throw("Integration error: Division by zero", "")

\* f(v) of the call: the expression evaluated with v bound to the unknown
FAt(v) == evaluateWithState(input.expression, angleUnit, Bound(input.mem, input.variable, v))

\* the windows solve searches with the default method: the bounds given, and
\* guess - 10 i .. guess + 10 i for i = 1..10
SearchedWindows ==
    (IF input.bounds = NoBounds THEN {} ELSE {<<input.bounds[1], input.bounds[2]>>})
    \cup {<<Sub(input.guess, Int2V(10 * i)), Add(input.guess, Int2V(10 * i))>> : i \in 1..10}
NoSignChange(w) ==
    /\ FAt(w[1]).ok /\ FAt(w[2]).ok
    /\ Tracked({FAt(w[1]).val, FAt(w[2]).val})
    /\ Gt(Mul(FAt(w[1]).val, FAt(w[2]).val), Zero)
\* the central difference of f at v with step h
DerivativeAt(v) ==
    Div(Sub(FAt(Add(v, DefaultH)).val, FAt(Sub(v, DefaultH)).val), Mul(Two, DefaultH))
\* the case of C12: a finished default-method call, no sign change on any
\* window, f(guess) not within tolerance of 0, derivative at guess below 1e-12
FlatAwayFromZero ==
    /\ pc = "done" /\ input.fn = "solve" /\ input.method = "brent"
    /\ \A w \in SearchedWindows : NoSignChange(w)
    /\ FAt(input.guess).ok /\ IsNum(FAt(input.guess).val)
    /\ ~Lt(Abs(FAt(input.guess).val), input.tolerance)
    /\ FAt(Add(input.guess, DefaultH)).ok /\ FAt(Sub(input.guess, DefaultH)).ok
    /\ BelowTiny(DerivativeAt(input.guess))
DerivativeTooSmall == Throw("Solver error: Derivative too small, Newton method failed", "")

\* C12 as stated: in that case solve throws 'Solver error: Derivative too
\* small, Newton method failed', whatever the options are.
C12_DerivativeTooSmall_AsStated == FlatAwayFromZero => outcome = DerivativeTooSmall

\* C12 amended: in that case, when maxIterations is at least 1, solve throws
\* 'Solver error: Derivative too small, Newton method failed' and returns no
\* number (with maxIterations = 0 newton's loop is not entered and the error
\* is 'Solver error: Newton method did not converge').
C12_DerivativeTooSmall ==
    (FlatAwayFromZero /\ input.maxIterations >= 1) => outcome = DerivativeTooSmall

\* C12 witness: all ten windows were searched, newton ran from the guess and
\* the call has thrown the error of the derivative
C12_Witness ==
    /\ FlatAwayFromZero /\ input.maxIterations >= 1
    /\ solver.i = 10 /\ solver.ret = "newton_fmh" /\ solver.x = input.guess
    /\ outcome = DerivativeTooSmall

\* C13: integrate(f, a, a) with a finite a returns 0 and has called f at no
\* point; and when integrate(f, a, b) with finite a # b is followed by
\* integrate(f, b, a), the second call samples f at the same points in the
\* same order and returns the negated value of the first (or throws the same
\* error when the first threw).
C13_EqualAndSwappedBounds ==
    (pc = "done" /\ isFinite(input.a) /\ isFinite(input.b)) =>
        IF StrictEq(input.a, input.b)
        THEN outcome = Ret(Zero) /\ samples = <<>>
        ELSE earlier.made =>
               /\ samples = earlier.samples
               /\ outcome = IF earlier.outcome.ok
                            THEN Ret(Neg(earlier.outcome.val))
                            ELSE earlier.outcome

\* C13 witness: integrate('X*X*X*X', 0, 2) returned 32/5 after refining, and
\* integrate('X*X*X*X', 2, 0) has returned -32/5 from the same nine samples
C13_Witness ==
    /\ pc = "done" /\ earlier.made
    /\ input.a = Int2V(2) /\ input.b = Zero /\ input.maxDepth = 1
    /\ earlier.outcome = Ret(Num(32, 5))
    /\ outcome = Ret(Num(-32, 5))
    /\ Len(samples) > 5 /\ samples = earlier.samples

\* f returned NaN or an infinity at a point the call has sampled
NonFiniteSample ==
    \E i \in 1..Len(samples) : FAt(samples[i]).ok /\ ~isFinite(FAt(samples[i]).val)

\* C14: when f has returned NaN, Infinity or -Infinity at any point that an
\* integrate call sampled (a bound, the midpoint, a quarter point at any
\* level), the call has thrown an error and returned no value.
C14_NonFiniteSampleThrows ==
    (pc = "done" /\ input.fn = "integrate" /\ NonFiniteSample) =>
        ~outcome.ok /\ outcome # ModelLimit

\* C14 witness: integrate('(2*X-1)^(0-1)', 0, 2) found f infinite at the
\* quarter point 1/2, after finite values at 0, 2 and 1, and has thrown
C14_Witness ==
    /\ pc = "done" /\ input.fn = "integrate"
    /\ Len(samples) = 5 /\ samples[4] = Num(1, 2)
    /\ solver.frames[1].fd = PInf
    /\ isFinite(solver.fa) /\ isFinite(solver.fb) /\ isFinite(solver.fc)
    /\ outcome = Throw("Integration error: Function returned non-finite value", "")

\* the coefficients c0..c3 of the polynomials among the expressions
\* integrated, written in the letter v; <<>> for any other expression
Coefficients(ex, v) ==
    CASE ex = <<v, "-", "1">>                     -> <<-1, 1, 0, 0>>
      [] ex = <<v, "*", v>>                       -> <<0, 0, 1, 0>>
      [] ex = <<v, "*", v, "*", v, "-", v>>       -> <<0, -1, 0, 1>>
      [] OTHER                                    -> <<>>
\* the integral of c0 + c1 x + c2 x^2 + c3 x^3 over [a, b] by the antiderivative
RECURSIVE ExactIntegral(_, _, _, _)
ExactIntegral(c, a, b, k) ==
    IF k > Len(c) THEN Zero
    ELSE Add(Mul(Int2V(c[k]), Div(Sub(Pow(b, Int2V(k)), Pow(a, Int2V(k))), Int2V(k))),
             ExactIntegral(c, a, b, k + 1))
\* the call integrates a polynomial of degree at most 3 in the letter that f
\* binds, over finite a < b
CubicCall ==
    /\ input.fn = "integrate"
    /\ Coefficients(input.expression, toUpperCase(input.variable)) # <<>>
    /\ IsNum(input.a) /\ IsNum(input.b) /\ Lt(input.a, input.b)

\* C15: integrate of a polynomial of degree at most 3 over finite a < b
\* returns the exact integral, and it does so at the top level: f is sampled
\* at a, b, the midpoint and the two quarter points only; the integral of
\* x*x over [0, 1] is 1/3.
C15_ExactOnCubics ==
    (pc = "done" /\ CubicCall) =>
        /\ outcome = Ret(ExactIntegral(Coefficients(input.expression,
                                                    toUpperCase(input.variable)),
                                       input.a, input.b, 1))
        /\ Len(samples) = 5
        /\ (input.expression = <<toUpperCase(input.variable), "*",
                                 toUpperCase(input.variable)>>
            /\ input.a = Zero /\ input.b = One) => outcome = Ret(Num(1, 3))

\* C15 witness: integrate('X*X*X-X', 0, 2) with maxDepth 2 has returned 2
C15_Witness ==
    /\ pc = "done" /\ CubicCall
    /\ input.expression = <<"X", "*", "X", "*", "X", "-", "X">>
    /\ input.a = Zero /\ input.b = Int2V(2) /\ input.maxDepth = 2
    /\ outcome = Ret(Int2V(2))

\* the results on state.stack before the last '=' was pressed
StackBefore ==
    IF outcome.ok THEN SubSeq(state.stack, 1, Len(state.stack) - 1) ELSE state.stack

\* C16: when '=' has evaluated the text 'Ans' that the Ans key inserted, after
\* an earlier '=' had succeeded with the result r, the evaluation returned r.
C16_AnsRecallsLastAnswer ==
    (pc = "keys" /\ exprIn = <<"A", "n", "s">> /\ StackBefore # <<>>) =>
        outcome = Ret(StackBefore[Len(StackBefore)].result)

\* C17: evaluate returns a value only when the scan of the RPN ends with
\* exactly one value on the stack.  Counting from the token types alone, an
\* operator that finds fewer than two values, a function that finds fewer than
\* its arity, and an end with no value or with several each make evaluate
\* throw, with the error of the first such place unless an operation has
\* thrown before it; '()' throws 'stack has 0 items' and '(2)(3)' throws
\* 'stack has 2 items'.
Needs(token) ==
    CASE token.type = "OPERATOR" -> 2
      [] token.type = "FUNCTION" ->
            IF FuncIndex(token.value) = 0 THEN 0
            ELSE FUNCTIONS[FuncIndex(token.value)].args
      [] OTHER -> 0
\* the error the stack's height asks for from rpnTokens[i..] on, the height
\* being h before; Ret(Null) when it asks for none
RECURSIVE StackError(_, _, _)
StackError(rpnTokens, i, h) ==
    IF i > Len(rpnTokens)
    THEN IF h = 1 THEN Ret(Null)
         ELSE Throw("Invalid expression: stack has " \o NumberToString(h) \o " items", "")
    ELSE IF h < Needs(rpnTokens[i])
    THEN IF rpnTokens[i].type = "OPERATOR"
         THEN Throw("Insufficient operands for operator", "")
         ELSE Throw("Insufficient arguments for function", rpnTokens[i].value)
    ELSE StackError(rpnTokens, i + 1, h - Needs(rpnTokens[i]) + 1)
StackMessages ==
    {"Insufficient operands for operator", "Insufficient arguments for function"}
    \cup {"Invalid expression: stack has " \o NumberToString(h) \o " items" :
             h \in 0..(2 * MaxTokens + 8)}
\* evaluate was called and has ended
Evaluated == pc = "done" /\ parseToRPN(toks).ok

C17_OneValueLeft ==
    Evaluated =>
        /\ outcome.ok => StackError(rpnOut, 1, 0) = Ret(Null)
        /\ outcome.msg \in StackMessages => outcome = StackError(rpnOut, 1, 0)
        /\ exprIn = <<"(", ")">>
              => outcome = Throw("Invalid expression: stack has 0 items", "")
        /\ exprIn = <<"(", "2", ")", "(", "3", ")">>
              => outcome = Throw("Invalid expression: stack has 2 items", "")

C17_Witness ==
    /\ Evaluated
    /\ exprIn = <<"(", "2", ")", "(", "3", ")">>
    /\ rpnOut = <<NumTok(Int2V(2)), NumTok(Int2V(3))>>
    /\ ~outcome.ok

\* C18: at each position tokenize emits the longest name of FUNCTIONS that
\* matches there: 'sinh(1)' becomes Function(sinh), LParen, Number(1), RParen,
\* and an expression that starts with a name of the table, followed by '(',
\* starts with the Function token of that name.
NameOfChars(chars) ==
    FUNCTIONS[CHOOSE k \in 1..Len(FUNCTIONS) : FUNCTIONS[k].chars = chars].name
\* tokenize has returned
Tokenized == pc # "ready"

C18_LongestFunctionName ==
    Tokenized =>
        /\ input.shape = "func"
              => /\ Len(toks) >= 2
                 /\ toks[1] = Tok("FUNCTION", NameOfChars(input.f))
                 /\ toks[2] = Tok("LPAREN", "(")
        /\ exprIn = <<"s", "i", "n", "h", "(", "1", ")">>
              => toks = <<Tok("FUNCTION", "sinh"), Tok("LPAREN", "("),
                          NumTok(One), Tok("RPAREN", ")")>>

\* C19: in brent, started with f(a) * f(b) <= 0, at the point of every
\* iteration where xm = (c - b) / 2 is computed, f(b) and f(c) are not both
\* strictly positive and not both strictly negative.
\* the loop body is entered and passes the test of |fb| against the tolerance
BrentReachesXm ==
    /\ pc = "brent_loop"
    /\ solver.iterations < input.maxIterations
    /\ Tracked({solver.a, solver.b, solver.c, solver.d, solver.e, solver.fa,
                solver.fb, solver.fc, Mul(solver.fa, solver.fb)})
    /\ ~Lt(Abs(solver.fb), input.tolerance)
\* the locals at "const xm = (c - b) / 2"
BrentAtXm == brentRotate(brentReset(solver))

C19_BrentBrackets ==
    BrentReachesXm =>
        ~(Sign(BrentAtXm.fb) # 0 /\ Sign(BrentAtXm.fb) = Sign(BrentAtXm.fc))

\* C20: in bisection, started with f(a) * f(b) <= 0, at the start of every
\* iteration the endpoints satisfy f(a) * f(b) <= 0 and lie in the initial
\* interval; every iteration that goes on replaces the interval by one inside
\* it of half the width; a call in which f does not throw returns a point of
\* the initial interval, also when maxIterations runs out (no error of
\* non-convergence).
BisectionCall ==
    input.fn = "solve" /\ input.method = "bisection" /\ input.bounds # <<>>
\* a <= v <= b
Within(v, a, b) == Le(a, v) /\ Le(v, b)
\* the test at the head of the while loop is about to be made
BisectionIterationStarts == BisectionCall /\ pc = "bisection_loop"
BisectionBracket ==
    BisectionIterationStarts =>
        /\ Sign(solver.fa) * Sign(solver.fb) \in {-1, 0}
        /\ Within(solver.a, input.bounds[1], input.bounds[2])
        /\ Within(solver.b, input.bounds[1], input.bounds[2])
        /\ Le(solver.a, solver.b)
\* the loop body has run and the loop goes on
BisectionNarrows ==
    (BisectionCall /\ pc = "bisection_fc" /\ pc' = "bisection_loop") =>
        /\ Within(solver'.a, solver.a, solver.b)
        /\ Within(solver'.b, solver.a, solver.b)
        /\ Sub(solver'.b, solver'.a) = Div(Sub(solver.b, solver.a), Two)
        /\ solver'.iterations = solver.iterations + 1
\* the call has ended, the signs at the bounds differed and f never threw
BisectionEnded ==
    /\ BisectionCall /\ pc = "done"
    /\ solver.fout.ok /\ outcome # ModelLimit
    /\ outcome.msg # "Solver error: Function must have different signs at bounds"
BisectionReturns ==
    BisectionEnded =>
        outcome.ok /\ Within(outcome.val, input.bounds[1], input.bounds[2])

C20_BisectionInvariant ==
    /\ [](BisectionBracket /\ BisectionReturns)
    /\ [][BisectionNarrows]_vars

\* maxIterations iterations were made and the midpoint was returned
C20_Witness ==
    /\ BisectionEnded
    /\ input.maxIterations = MaxIterations
    /\ solver.iterations = MaxIterations
    /\ outcome.ok
    /\ Lt(input.bounds[1], solver.a) /\ Lt(solver.b, input.bounds[2])

\* C21: each of bisection, newton, secant and brent runs its loop body at most
\* maxIterations times and then ends: while a body runs fewer than
\* maxIterations bodies have been completed; when the loop test fails, newton,
\* secant and brent throw their 'did not converge' error and bisection returns
\* the midpoint of its last bracket; every call ends.
LoopBodyLabels ==
    {"brent_next", "newton_fx", "newton_fph", "newton_fmh", "secant_fx0",
     "secant_fx1", "bisection_fc"}
\* the body of a method's loop is running (also while f runs for it)
InLoopBody ==
    \/ pc \in LoopBodyLabels
    \/ pc \in {"f_bind", "f_eval", "f_restore"} /\ solver.ret \in LoopBodyLabels
IterationsBounded ==
    input.fn = "solve" =>
        /\ solver.iterations <= input.maxIterations
        /\ InLoopBody => solver.iterations < input.maxIterations
\* the loop test of the method at label fails
Exhausted(label) == pc = label /\ solver.iterations >= input.maxIterations
DidNotConverge(method) ==
    Throw("Solver error: " \o method \o " method did not converge", "")
EndsWhenExhausted ==
    /\ Exhausted("newton_loop") => pc' = "done" /\ outcome' = DidNotConverge("Newton")
    /\ Exhausted("secant_loop") => pc' = "done" /\ outcome' = DidNotConverge("Secant")
    /\ Exhausted("brent_loop")  => pc' = "done" /\ outcome' = DidNotConverge("Brent")
    /\ Exhausted("bisection_loop")
          => pc' = "done" /\ outcome' = Ret(Div(Add(solver.a, solver.b), Two))

\* the places of the code of solve and of f
SolveLabels ==
    {"call", "f_bind", "f_eval", "f_restore", "solve_fa", "solve_fb",
     "window_fa", "window_fb", "brent_fa", "brent_fb", "brent_loop",
     "brent_next", "newton_loop", "newton_fx", "newton_fph", "newton_fmh",
     "secant_loop", "secant_fx0", "secant_fx1", "bisection_fa", "bisection_fb",
     "bisection_loop", "bisection_fc"}
\* the solve calls with the unknown X and state.memory as app.js creates it.
\* The code runs on: at each place the step that stands there can be taken
\* and leads to another place, and the code stays at no place forever
InitLoops ==
    /\ InitSolve
    /\ input.fn = "solve" /\ input.variable = "X" /\ input.mem = InitialMemory
NextLoops ==
    \/ Solve \/ FBind \/ FEvaluate \/ FRestore
    \/ SolveFa \/ SolveFb \/ WindowFa \/ WindowFb
    \/ BrentFa \/ BrentFb \/ BrentLoop \/ BrentNext
    \/ NewtonLoop \/ NewtonFx \/ NewtonFph \/ NewtonFmh
    \/ SecantLoop \/ SecantFx0 \/ SecantFx1
    \/ BisectionFa \/ BisectionFb \/ BisectionLoop \/ BisectionFc
SpecLoops ==
    /\ InitLoops /\ [][NextLoops]_vars
    /\ \A label \in SolveLabels : []<>(pc # label)

C21_LoopsBounded ==
    /\ []IterationsBounded
    /\ [][EndsWhenExhausted]_vars
    /\ <>(pc = "done")

\* a method has run maxIterations bodies and ended with its error
C21_Witness ==
    /\ pc = "done"
    /\ input.fn = "solve"
    /\ input.maxIterations = MaxIterations
    /\ solver.iterations = MaxIterations
    /\ outcome \in {DidNotConverge("Newton"), DidNotConverge("Secant"),
                    DidNotConverge("Brent")}

\* C22: with method brent and no bounds, solve tests the windows
\* [g - 10k, g + 10k] for k = 1, 2, ..., 10 in increasing order (the first
\* one twice), runs brent on the first window with f(a) * f(b) <= 0 and tests
\* no window after it, and calls newton from g only after all ten windows
\* have failed the test.
Window(k) == <<Sub(input.guess, Int2V(10 * k)), Add(input.guess, Int2V(10 * k))>>
\* the k of a window, 0 for an interval that is no window
WindowNumber(a, b) ==
    IF \E k \in 1..10 : <<a, b>> = Window(k)
    THEN CHOOSE k \in 1..10 : <<a, b>> = Window(k) ELSE 0
\* f was called at the ends of windows only, in pairs, the first window first,
\* each next one the same or the next wider, the last one window K
TestedUpTo(K) ==
    LET n == Len(samples) \div 2
        ks == [j \in 1..n |-> WindowNumber(samples[2 * j - 1], samples[2 * j])]
    IN  /\ Len(samples) = 2 * n /\ n >= 1
        /\ ks[1] = 1 /\ ks[n] = K
        /\ \A j \in 1..(n - 1) : ks[j + 1] \in {ks[j], ks[j] + 1}
        /\ {ks[j] : j \in 1..n} = 1..K
DefaultSearch ==
    input.fn = "solve" /\ input.method = "brent" /\ input.bounds = NoBounds
InBrent ==
    \/ pc \in {"brent_fa", "brent_fb", "brent_loop", "brent_next"}
    \/ pc \in {"f_bind", "f_eval", "f_restore"}
       /\ solver.ret \in {"brent_fa", "brent_fb", "brent_next"}
InSearch ==
    \/ pc \in {"solve_fa", "solve_fb", "window_fa", "window_fb"}
    \/ pc \in {"f_bind", "f_eval", "f_restore"}
       /\ solver.ret \in {"solve_fa", "solve_fb", "window_fa", "window_fb"}
\* brent(f, a, b) is being called
BrentStarts == DefaultSearch /\ pc = "f_bind" /\ solver.ret = "brent_fa"
\* newton(f, initialGuess) is being called by the default method
NewtonStarts == DefaultSearch /\ pc = "newton_loop" /\ solver.iterations = 0
SearchOrder ==
    /\ BrentStarts =>
          LET K == WindowNumber(solver.a, solver.b)
          IN  /\ K >= 1
              /\ ~NoSignChange(Window(K))
              /\ \A k \in 1..(K - 1) : NoSignChange(Window(k))
              /\ TestedUpTo(K)
    /\ NewtonStarts =>
          /\ \A k \in 1..10 : NoSignChange(Window(k))
          /\ TestedUpTo(10)
          /\ solver.x = input.guess
\* once brent or newton runs, no window is tested
SearchIsOver ==
    (DefaultSearch /\ (InBrent \/ pc \in {"newton_loop", "newton_fx", "newton_fph", "newton_fmh"}
                       \/ solver.ret \in {"newton_fx", "newton_fph", "newton_fmh"}))
        => ~InSearch'

C22_WindowOrder == []SearchOrder /\ [][SearchIsOver]_vars

\* brent is called on the second window after the first has failed the test
C22_Witness ==
    /\ BrentStarts
    /\ WindowNumber(solver.a, solver.b) = 2
    /\ NoSignChange(Window(1))

\* C23: solve with method brent and explicit bounds [a, b] evaluates the
\* expression only at points of [a, b], and when f(a) * f(b) > 0 it fails
\* with the error of the missing sign change: it searches no window around
\* the initial guess and does not fall back to newton.
ExplicitBounds ==
    input.fn = "solve" /\ input.method = "brent" /\ input.bounds # NoBounds
NoSignChangeError ==
    Throw("Solver error: Function must have different signs at bounds", "")

C23_ExplicitBoundsOnly ==
    ExplicitBounds =>
        /\ \A j \in 1..Len(samples) :
              Within(samples[j], input.bounds[1], input.bounds[2])
        /\ (pc = "done" /\ NoSignChange(<<input.bounds[1], input.bounds[2]>>))
              => outcome = NoSignChangeError

\* C24: within integrate(f, a, b, {maxDepth: D}), D >= 0, every call of
\* adaptiveSimpson has a depth between 0 and D; a call made by another has
\* one of the halves of its interval, half its epsilon and its depth less 1
\* (so a call with depth 0 makes none); f is evaluated at most
\* 3 + 2 * (2^(D+1) - 1) times and at no point twice; every call of integrate
\* ends.
IntegrateCall == input.fn = "integrate"
IsHalfOf(child, parent) ==
    LET c == Div(Add(parent.a, parent.b), Two)
    IN  /\ \/ child.a = parent.a /\ child.b = c
           \/ child.a = c /\ child.b = parent.b
        /\ child.epsilon = Div(parent.epsilon, Two)
        /\ child.depth = parent.depth - 1
MaxEvaluations(D) == 3 + 2 * (2^(D + 1) - 1)
DepthBounded ==
    IntegrateCall =>
        LET frames == solver.frames
        IN  /\ \A n \in 1..Len(frames) :
                  /\ frames[n].depth \in 0..input.maxDepth
                  /\ n > 1 => IsHalfOf(frames[n], frames[n - 1])
            /\ Len(frames) >= 1 => frames[1].depth = input.maxDepth
            /\ Len(samples) <= MaxEvaluations(input.maxDepth)
            /\ \A i, j \in 1..Len(samples) : samples[i] = samples[j] => i = j

\* the places of the code of integrate and of f
IntegrateLabels ==
    {"call", "f_bind", "f_eval", "f_restore", "integrate_fa", "integrate_fb",
     "integrate_fc", "adaptive", "adaptive_fd", "adaptive_fe", "adaptive_return"}
\* the integrate calls with the unknown X and state.memory as app.js creates
\* it.  The code runs on: at each place the step that stands there can be
\* taken, and the code stays at no place forever
InitDepth ==
    /\ InitSolve
    /\ input.fn = "integrate" /\ input.variable = "X" /\ input.mem = InitialMemory
NextDepth ==
    \/ FBind \/ FEvaluate \/ FRestore
    \/ Integrate \/ IntegrateFa \/ IntegrateFb \/ IntegrateFc
    \/ AdaptiveSimpson \/ AdaptiveFd \/ AdaptiveFe \/ AdaptiveReturn
SpecDepth ==
    /\ InitDepth /\ [][NextDepth]_vars
    /\ \A label \in IntegrateLabels : []<>(pc # label)

C24_DepthBounded == []DepthBounded /\ <>(pc = "done")

\* every call down to depth 0 was made and all of them have returned
C24_Witness ==
    /\ IntegrateCall /\ pc = "done" /\ outcome.ok
    /\ input.maxDepth >= 1
    /\ Len(samples) = MaxEvaluations(input.maxDepth)

\* C25: every Operator or Function token that tokenize emits has a case in
\* evaluateOperation: evaluating the RPN of the tokens of an expression never
\* throws 'Unknown operator'.
C25_EveryTokenHasCase ==
    (Evaluated /\ toks = tokenize(exprIn)) => outcome.msg # "Unknown operator"

\* C26: for every token sequence parseToRPN accepts, the output holds the
\* input's Number, Constant, Variable, Operator and Function tokens, each as
\* often as the input, and no parenthesis or comma; the Number, Constant and
\* Variable tokens stand in the output in the order of the input.
OperandTypes == {"NUMBER", "CONSTANT", "VARIABLE"}
KeptTypes == OperandTypes \cup {"OPERATOR", "FUNCTION"}
Occurrences(seq, token) == Cardinality({i \in DOMAIN seq : seq[i] = token})
Operands(seq) == SelectSeq(seq, LAMBDA token : token.type \in OperandTypes)
\* parseToRPN has returned its output
Parsed == pc \in {"parsed", "done"} /\ parseToRPN(toks).ok

C26_TokensPreserved ==
    Parsed =>
        /\ \A i \in DOMAIN rpnOut : rpnOut[i].type \in KeptTypes
        /\ \A i \in DOMAIN toks :
              toks[i].type \in KeptTypes
                 => Occurrences(rpnOut, toks[i]) = Occurrences(toks, toks[i])
        /\ \A i \in DOMAIN rpnOut : Occurrences(toks, rpnOut[i]) > 0
        /\ Operands(rpnOut) = Operands(toks)

\* a function call with an operator inside: the parentheses are gone, the
\* operator and the function follow their operands
C26_Witness ==
    /\ Parsed
    /\ toks = <<Tok("FUNCTION", "sqrt"), Tok("LPAREN", "("), NumTok(One), Tok("RPAREN", ")")>>
    /\ rpnOut = <<NumTok(One), Tok("FUNCTION", "sqrt")>>


\* ---------------------------------------------------------------------------
\* C27: after any sequence of keys (character, operator and function keys,
\* DEL, AC, '=', the left and right arrows, history up and down) the position
\* of the cursor manager is at least 0 and at most the length of the input
\* buffer.
AtKeys == pc = "keys"
C27_CursorWithinBuffer ==
    AtKeys => (0 <= state.position /\ state.position <= Len(state.inputBuffer))


\* ---------------------------------------------------------------------------
\* C28: under add, backward, forward, exitBrowsing and clear the history
\* manager holds at most maxHistory (50) entries, the oldest entry being the
\* one dropped when an entry is added to a full history, and currentIndex is
\* -1 or an index of the history (0 <= currentIndex < history.length).
HistoryBounded ==
    /\ Len(state.history) <= maxHistory
    /\ \/ state.currentIndex = -1
       \/ 0 <= state.currentIndex /\ state.currentIndex < Len(state.history)
OldestDroppedFirst ==
    \/ state'.history = state.history
    \/ state'.history = <<>>
    \/ LET added == state'.history[Len(state'.history)]
       IN  state'.history = IF Len(state.history) < maxHistory
                            THEN Append(state.history, added)
                            ELSE Append(Tail(state.history), added)
C28_HistoryBounded == []HistoryBounded /\ [][OldestDroppedFirst]_vars
\* the history is full, its oldest entry was dropped, and the oldest entry
\* left is the one browsed
C28_Witness ==
    /\ pc = "history"
    /\ Len(state.history) = maxHistory
    /\ state.history[1].result # Zero
    /\ state.currentIndex = 0
    /\ state.tempBuffer = <<"2">>


\* ---------------------------------------------------------------------------
\* C29: the modifiers exclude each other: state.shift and state.alpha are
\* never both true, whatever keys were pressed.
C29_ModifiersExclusive == ~(state.shift /\ state.alpha)
\* ALPHA is on and SHIFT is off after exactly two keys on an untouched
\* calculator, as after SHIFT, ALPHA
C29_Witness ==
    /\ AtKeys
    /\ state.presses = 2
    /\ state.alpha /\ ~state.shift
    /\ state.inputBuffer = <<>> /\ state.mode = "Math"


\* ---------------------------------------------------------------------------
\* C30: an error set by setError stays until its own 2 seconds are over or
\* the user clears it: when a second error was set while the timer of the
\* first was pending, the first timer's firing does not remove the second
\* error. (With two timers pending the message shown is the one of the later
\* setError, and the timer that fires is the earlier one.)
EarlierTimerFires == state.timers >= 2 /\ state'.timers = state.timers - 1
C30_ErrorKeptByEarlierTimer ==
    [][(EarlierTimerFires /\ state.error # "") => state'.error = state.error]_vars

====
